---- MODULE Spec2Model ----
(***************************************************************************)
(* Model of the mbus schedule resolution engine.                           *)
(*                                                                         *)
(*   - the schedules GET handler ("resolve") with its module-level cache,  *)
(*     the Brezavta upstream call and the normalisation of arrivals;       *)
(*   - the page: fetchSchedule / fetchAllSchedules, the per-group merge    *)
(*     (getMergedSchedules) and the card shown for a group.                *)
(*                                                                         *)
(* JavaScript strings are sequences of one-character strings, so that      *)
(* formatting, parsing, concatenation and substring search are computed.   *)
(* JavaScript numbers that may be NaN, Infinity or undefined are records   *)
(* [k |-> "num" | "nan" | "inf" | "undef", v |-> Int].                     *)
(***************************************************************************)
EXTENDS Integers, Sequences, FiniteSets, TLC

(***************************************************************************)
(* Strings                                                                 *)
(***************************************************************************)
DigitChars == <<"0", "1", "2", "3", "4", "5", "6", "7", "8", "9">>

IsDigit(ch) == \E i \in 1..10 : DigitChars[i] = ch

DigitVal(ch) == (CHOOSE i \in 1..10 : DigitChars[i] = ch) - 1

IsSpace(ch) == ch = " "

\* Number.prototype.toString for a non-negative integer
RECURSIVE NumToStr(_)
NumToStr(n) ==
    IF n < 10 THEN <<DigitChars[n + 1]>>
    ELSE NumToStr(n \div 10) \o <<DigitChars[(n % 10) + 1]>>

\* String.prototype.padStart(2, '0'): pads, never truncates
PadStart2(s) == IF Len(s) >= 2 THEN s ELSE IF Len(s) = 1 THEN <<"0">> \o s ELSE <<"0", "0">>

\* String.prototype.includes
Includes(s, sub) ==
    \E i \in 1..(Len(s) - Len(sub) + 1) : SubSeq(s, i, i + Len(sub) - 1) = sub

\* String.prototype.split with a one-character separator
RECURSIVE Split(_, _)
Split(s, sep) ==
    IF \A i \in 1..Len(s) : s[i] # sep THEN <<s>>
    ELSE LET i == CHOOSE j \in 1..Len(s) :
                      s[j] = sep /\ \A k \in 1..(j - 1) : s[k] # sep
         IN  <<SubSeq(s, 1, i - 1)>> \o Split(SubSeq(s, i + 1, Len(s)), sep)

\* String.prototype.trim, as Number() applies it to its argument
RECURSIVE TrimLeft(_)
TrimLeft(s) == IF Len(s) > 0 /\ IsSpace(s[1]) THEN TrimLeft(Tail(s)) ELSE s

RECURSIVE TrimRight(_)
TrimRight(s) ==
    IF Len(s) > 0 /\ IsSpace(s[Len(s)]) THEN TrimRight(SubSeq(s, 1, Len(s) - 1)) ELSE s

Trim(s) == TrimRight(TrimLeft(s))

RECURSIVE DigitsVal(_)
DigitsVal(s) ==
    IF Len(s) = 0 THEN 0
    ELSE 10 * DigitsVal(SubSeq(s, 1, Len(s) - 1)) + DigitVal(s[Len(s)])

(***************************************************************************)
(* JavaScript numbers                                                      *)
(***************************************************************************)
Num(n) == [k |-> "num", v |-> n]
NaN == [k |-> "nan", v |-> 0]
Infinity == [k |-> "inf", v |-> 0]
Undefined == [k |-> "undef", v |-> 0]

\* Number(string) on the strings the model uses: unsigned decimal digits,
\* surrounded by optional white space; the empty string is 0; anything else NaN
ToNumber(s) ==
    LET t == Trim(s)
    IN  IF Len(t) = 0 THEN Num(0)
        ELSE IF \A i \in 1..Len(t) : IsDigit(t[i]) THEN Num(DigitsVal(t))
        ELSE NaN

\* Number.isNaN: true of NaN only, undefined is not coerced
NumberIsNaN(x) == x.k = "nan"

\* hours * 60 + minutes
JsTimes60Plus(h, m) ==
    IF h.k = "num" /\ m.k = "num" THEN Num(h.v * 60 + m.v)
    ELSE IF h.k \in {"nan", "undef"} \/ m.k \in {"nan", "undef"} THEN NaN
    ELSE Infinity

\* a > b for a JavaScript number a and an integer b
JsGreater(a, b) ==
    CASE a.k = "num" -> a.v > b
      [] a.k = "inf" -> TRUE
      [] OTHER -> FALSE

(***************************************************************************)
(* Time utilities of the schedules route                                   *)
(***************************************************************************)
\* mutant of secondsToTime: the minutes are rounded to the nearest one
secondsToTimeRounded(seconds) ==
    LET hours == seconds \div 3600
        minutes == ((seconds % 3600) + 30) \div 60
    IN  PadStart2(NumToStr(hours)) \o <<":">> \o PadStart2(NumToStr(minutes))

secondsToTime(seconds) ==
    LET hours == seconds \div 3600
        minutes == (seconds % 3600) \div 60
    IN  PadStart2(NumToStr(hours)) \o <<":">> \o PadStart2(NumToStr(minutes))

timeToMinutes(time) ==
    LET parts == Split(time, ":")
        hours == ToNumber(parts[1])
        minutes == IF Len(parts) >= 2 THEN ToNumber(parts[2]) ELSE Undefined
    IN  IF NumberIsNaN(hours) \/ NumberIsNaN(minutes) THEN Infinity
        ELSE JsTimes60Plus(hours, minutes)

(***************************************************************************)
(* Bounds of the model                                                     *)
(***************************************************************************)
\* number of GET requests of one behaviour
MaxCalls == 3
\* seconds of wall-clock time a behaviour covers
MaxElapsed == 60
\* length of the upstream arrival lists of the wide-input specification
MaxArrivals == 4
\* number of refresh-all operations of one behaviour of the page
MaxRefreshes == 2

Calls == 1..MaxCalls

\* the wall clock at the start of a behaviour: 08:09:30, in seconds since midnight
ClockStart == 8 * 3600 + 9 * 60 + 30

\* the steps in which the model lets the wall clock advance, in seconds
TickSteps == {30}

(***************************************************************************)
(* Constants of the schedules route                                        *)
(***************************************************************************)
DEBUG == TRUE

CACHE_TTL_MS == 60 * 1000

AXIOS_TIMEOUT_MS == 10 * 1000

API_BASE_URL ==
    <<"h", "t", "t", "p", "s", ":", "/", "/", "a", "p", "i", ".", "b", "e", "t", "a", ".",
      "b", "r", "e", "z", "a", "v", "t", "a", ".", "s", "i">>

WEBSITE_BASE_URL ==
    <<"h", "t", "t", "p", "s", ":", "/", "/", "b", "r", "e", "z", "a", "v", "t", "a", ".",
      "s", "i">>

DEBUG_TARGET == [stop |-> <<"3", "5", "9">>, route |-> <<"G", "6">>]

NOTE_NEXT_AVAILABLE == "No more buses today - showing next available departures"

NOTE_UNABLE == "Unable to fetch schedule data from API"

ERROR_MISSING == "Missing stop or route parameter"

\* a field that is undefined, which JSON leaves out
NoValue == "undefined"

(***************************************************************************)
(* Inputs: requests and upstream arrival lists                             *)
(***************************************************************************)
G6 == <<"G", "6">>
P18 == <<"P", "1", "8">>
RouteC == <<"c">>
RouteBC == <<"b", "-", "c">>

Stop359 == <<"3", "5", "9">>
StopA == <<"a">>
StopAB == <<"a", "-", "b">>
\* a stop id that makes the website url contain "/stops/" and "/arrivals"
StopLegacy == <<"/", "s", "t", "o", "p", "s", "/", "/", "a", "r", "r", "i", "v", "a", "l", "s">>

\* the (stop, route) query parameters of the requests; an absent parameter
\* (searchParams.get gives null) and an empty one are both falsy: <<>>
Requests ==
    { [stop |-> Stop359, route |-> G6],
      [stop |-> Stop359, route |-> P18] }

\* requests that lack a parameter, and one that lacks none
ParamRequests ==
    { [stop |-> <<>>, route |-> G6],
      [stop |-> Stop359, route |-> <<>>],
      [stop |-> Stop359, route |-> G6] }

\* requests for a stop id that gives the website url the shape of the old API url
LegacyRequests ==
    { [stop |-> StopLegacy, route |-> G6],
      [stop |-> Stop359, route |-> G6] }

\* the datum parameter; Today stands for the default, the current ISO date
Today == "2025-01-15"
Datums == {Today, "2025-01-16"}

Hms(h, m, s) == h * 3600 + m * 60 + s

Arrival(route, headsign, realtime, passed, scheduled, real) ==
    [route_short_name |-> route, trip_headsign |-> headsign, realtime |-> realtime,
     passed |-> passed, arrival_scheduled |-> scheduled, arrival_realtime |-> real]

\* only departures that are over, none flagged as passed, and one of another route
FeedPast ==
    << Arrival(G6, "Center", FALSE, FALSE, Hms(8, 0, 0), Hms(8, 0, 0)),
       Arrival(G6, "", FALSE, FALSE, Hms(7, 30, 0), Hms(7, 30, 0)),
       Arrival(P18, "Tabor", FALSE, FALSE, Hms(8, 20, 0), Hms(8, 20, 0)) >>

\* five eligible G6 departures out of order, a tie within the minute 08:11, a
\* realtime record, a passed record and another route
FeedBusy ==
    << Arrival(G6, "Center", FALSE, FALSE, Hms(8, 20, 0), Hms(8, 20, 0)),
       Arrival(P18, "Tabor", FALSE, FALSE, Hms(8, 11, 0), Hms(8, 11, 0)),
       Arrival(G6, "Melje", FALSE, FALSE, Hms(8, 11, 30), Hms(8, 0, 0)),
       Arrival(G6, "Center", FALSE, TRUE, Hms(8, 5, 0), Hms(8, 5, 0)),
       Arrival(G6, "Center", TRUE, FALSE, Hms(8, 30, 0), Hms(8, 12, 0)),
       Arrival(G6, "", FALSE, FALSE, Hms(8, 11, 0), Hms(8, 11, 0)),
       Arrival(G6, "Center", FALSE, FALSE, Hms(8, 10, 0), Hms(8, 10, 0)) >>

Feeds == {FeedPast, FeedBusy}

\* departures of both routes, alternating
FeedMixed ==
    << Arrival(G6, "Center", FALSE, FALSE, Hms(8, 15, 0), Hms(8, 15, 0)),
       Arrival(P18, "Tabor", FALSE, FALSE, Hms(8, 12, 0), Hms(8, 12, 0)),
       Arrival(G6, "Center", FALSE, FALSE, Hms(8, 25, 0), Hms(8, 25, 0)),
       Arrival(P18, "Tabor", TRUE, FALSE, Hms(8, 28, 0), Hms(8, 30, 0)) >>

\* the records of the arrival lists of the wide-input specification
ArrivalPool ==
    { Arrival(G6, "", TRUE, FALSE, Hms(8, 30, 0), Hms(8, 0, 0)),
      Arrival(G6, "Center", FALSE, FALSE, Hms(8, 10, 0), Hms(8, 10, 0)),
      Arrival(G6, "Melje", FALSE, FALSE, Hms(8, 11, 30), Hms(8, 0, 0)),
      Arrival(G6, "Center", TRUE, FALSE, Hms(8, 0, 0), Hms(8, 11, 0)),
      Arrival(G6, "Center", FALSE, TRUE, Hms(8, 12, 0), Hms(8, 12, 0)),
      Arrival(P18, "Tabor", FALSE, FALSE, Hms(8, 11, 0), Hms(8, 11, 0)) }

\* every arrival list of at most MaxArrivals records of the pool
WideFeeds == UNION {[1..n -> ArrivalPool] : n \in 0..MaxArrivals}

\* the requests of the wide-input specification
WideCalls == {1, 2}

(***************************************************************************)
(* State                                                                   *)
(***************************************************************************)
VARIABLES
    clock,            \* wall clock, seconds since local midnight (Date.now() / 1000)
    upstream,         \* the arrival list the upstream API serves
    scheduleCache,    \* the module-level Map: cacheKey -> [timestamp, payload]
    debugActiveForRequest,
    calls,            \* the GET requests: position, locals and the response sent
    pinnedStops,      \* page state: the pinned groups
    schedules,        \* page state: scheduleKey -> response, or null
    loading,          \* page state: scheduleKey -> boolean
    failed,           \* page state: scheduleKey -> boolean
    refreshing,       \* page state
    lastUpdated,      \* page state: the refresh-all that stamped it last, 0 at mount
    refreshes,        \* the fetchAllSchedules invocations and their fetches
    timeSeconds,      \* the seconds since midnight handed to secondsToTime
    timeText,         \* the string handed to the two timeToMinutes functions
    timeMinutes,      \* what each of the two has returned for it
    localStorage,     \* the item 'mbus-pinned-stops' of the browser's localStorage
    storeCall         \* the last call of a function of the storage module

routeVars == <<clock, upstream, scheduleCache, debugActiveForRequest, calls>>

pageVars == <<pinnedStops, schedules, loading, failed, refreshing, lastUpdated, refreshes>>

timeVars == <<timeSeconds, timeText, timeMinutes>>

storeVars == <<localStorage, storeCall>>

vars == <<clock, upstream, scheduleCache, debugActiveForRequest, calls, pinnedStops,
          schedules, loading, failed, refreshing, lastUpdated, refreshes,
          timeSeconds, timeText, timeMinutes, localStorage, storeCall>>

\* Date.now(), in milliseconds
DateNow == clock * 1000

\* getCurrentTimeMinutes: hours * 60 + minutes of the local wall clock
getCurrentTimeMinutes == (clock \div 60) % (24 * 60)

(***************************************************************************)
(* The Map scheduleCache: a function from the keys that are set            *)
(***************************************************************************)
CacheHas(cache, key) == key \in DOMAIN cache

CacheSet(cache, key, entry) ==
    [k \in (DOMAIN cache) \cup {key} |-> IF k = key THEN entry ELSE cache[k]]

\* mutant of CacheDelete: the whole store is emptied
CacheDeleteAll(cache, key) == <<>>

\* scheduleCache.delete(key)
CacheDelete(cache, key) == [k \in (DOMAIN cache) \ {key} |-> cache[k]]

\* `${stopId}-${routeId}`
CacheKey(stopId, routeId) == stopId \o <<"-">> \o routeId

\* mutant of IsOldUrl: the shape of the url is not looked at
IsOldUrlNever(url) == FALSE

\* mutant of IsOldUrl: every url counts as one of the old API
IsOldUrlAlways(url) == TRUE

\* cached.payload.url.includes('/stops/') && cached.payload.url.includes('/arrivals')
IsOldUrl(url) ==
    /\ Len(url) > 0
    /\ Includes(url, <<"/", "s", "t", "o", "p", "s", "/">>)
    /\ Includes(url, <<"/", "a", "r", "r", "i", "v", "a", "l", "s">>)

\* mutants of IsFresh: the bound included; never fresh
IsFreshInclusive(entry) == DateNow - entry.timestamp <= CACHE_TTL_MS

IsFreshNever(entry) == FALSE

\* Date.now() - cached.timestamp < CACHE_TTL_MS
IsFresh(entry) == DateNow - entry.timestamp < CACHE_TTL_MS

\* `${WEBSITE_BASE_URL}/stop/${apiStopId}` with apiStopId = `MARPROM:${stopId}`
WebsiteUrl(stopId) ==
    WEBSITE_BASE_URL \o <<"/", "s", "t", "o", "p", "/">>
        \o <<"M", "A", "R", "P", "R", "O", "M", ":">> \o stopId

(***************************************************************************)
(* Normalisation of the arrivals                                           *)
(***************************************************************************)
\* arrival.realtime ? arrival.arrival_realtime : arrival.arrival_scheduled
EffectiveTime(a) == IF a.realtime THEN a.arrival_realtime ELSE a.arrival_scheduled

FilterRoute(arrivals, routeId) ==
    IF Len(routeId) > 0
    THEN SelectSeq(arrivals, LAMBDA a : a.route_short_name = routeId)
    ELSE arrivals

\* mutant of FilterNotPassed: the passed flag is not looked at
FilterNotPassedNone(arrivals) == arrivals

\* arrivals.filter(arrival => !arrival.passed)
FilterNotPassed(arrivals) == SelectSeq(arrivals, LAMBDA a : ~a.passed)

\* mutant of InsertArrival: an element goes before the elements of its own time
RECURSIVE InsertArrivalUnstable(_, _)
InsertArrivalUnstable(sorted, a) ==
    IF Len(sorted) = 0 THEN <<a>>
    ELSE IF EffectiveTime(a) - EffectiveTime(sorted[Len(sorted)]) > 0
         THEN Append(sorted, a)
         ELSE Append(InsertArrivalUnstable(SubSeq(sorted, 1, Len(sorted) - 1), a),
                     sorted[Len(sorted)])

\* Array.prototype.sort with (a, b) => timeA - timeB is a stable sort: an
\* element goes behind every element whose time is not larger than its own
RECURSIVE InsertArrival(_, _)
InsertArrival(sorted, a) ==
    IF Len(sorted) = 0 THEN <<a>>
    ELSE IF EffectiveTime(a) - EffectiveTime(sorted[Len(sorted)]) >= 0
         THEN Append(sorted, a)
         ELSE Append(InsertArrival(SubSeq(sorted, 1, Len(sorted) - 1), a),
                     sorted[Len(sorted)])

\* mutant of SortArrivals: the upstream order is kept
SortArrivalsNone(arrivals) == arrivals

RECURSIVE SortArrivals(_)
SortArrivals(arrivals) ==
    IF Len(arrivals) = 0 THEN <<>>
    ELSE InsertArrival(SortArrivals(SubSeq(arrivals, 1, Len(arrivals) - 1)),
                       arrivals[Len(arrivals)])

\* slice(0, 3)
Slice3(s) == SubSeq(s, 1, IF Len(s) < 3 THEN Len(s) ELSE 3)

\* the arrivals after the route filter, the passed filter, the sort and the cut
NextArrivals(arrivals, routeId) ==
    Slice3(SortArrivals(FilterNotPassed(FilterRoute(arrivals, routeId))))

ToSchedule(a) ==
    [time |-> secondsToTime(EffectiveTime(a)),
     destination |-> IF a.trip_headsign = "" THEN NoValue ELSE a.trip_headsign]

ToSchedules(arrivals) == [i \in 1..Len(arrivals) |-> ToSchedule(arrivals[i])]

\* mutant of FutureSchedules: the current minute counts as future
FutureSchedulesInclusive(scheduleList, currentMinutes) ==
    SelectSeq(scheduleList, LAMBDA s : JsGreater(timeToMinutes(s.time), currentMinutes - 1))

FutureSchedules(scheduleList, currentMinutes) ==
    SelectSeq(scheduleList, LAMBDA s : JsGreater(timeToMinutes(s.time), currentMinutes))

\* mutant of DisplaySchedules: no fall back to the next available departures
DisplaySchedulesFutureOnly(scheduleList, currentMinutes) ==
    SelectSeq(scheduleList, LAMBDA s : JsGreater(timeToMinutes(s.time), currentMinutes))

DisplaySchedules(scheduleList, currentMinutes) ==
    IF Len(FutureSchedules(scheduleList, currentMinutes)) > 0
    THEN FutureSchedules(scheduleList, currentMinutes)
    ELSE Slice3(scheduleList)

ResultNote(scheduleList, currentMinutes) ==
    IF Len(FutureSchedules(scheduleList, currentMinutes)) = 0 /\ Len(scheduleList) > 0
    THEN NOTE_NEXT_AVAILABLE
    ELSE NoValue

\* the payload built from the response of the upstream
BuildResult(stopId, routeId, datum, arrivals, currentMinutes) ==
    LET scheduleList == ToSchedules(NextArrivals(arrivals, routeId))
    IN  [stop |-> stopId, route |-> routeId, date |-> datum,
         schedules |-> DisplaySchedules(scheduleList, currentMinutes),
         url |-> WebsiteUrl(stopId),
         note |-> ResultNote(scheduleList, currentMinutes)]

\* mutant of FallbackResult: the link is the API url of the stop
FallbackResultApiUrl(stopId, routeId, datum) ==
    [stop |-> stopId, route |-> routeId, date |-> datum, schedules |-> <<>>,
     url |-> API_BASE_URL \o <<"/", "s", "t", "o", "p", "s", "/">> \o stopId,
     note |-> NOTE_UNABLE]

\* the payload of the catch block
FallbackResult(stopId, routeId, datum) ==
    [stop |-> stopId, route |-> routeId, date |-> datum, schedules |-> <<>>,
     url |-> WEBSITE_BASE_URL \o <<"/", "s", "t", "o", "p", "/">>
                 \o <<"M", "A", "R", "P", "R", "O", "M", ":">> \o stopId,
     note |-> NOTE_UNABLE]

(***************************************************************************)
(* The GET handler                                                         *)
(***************************************************************************)
\* a request that has not been made
IdleCall ==
    [pc |-> "idle", stop |-> <<>>, route |-> <<>>, datum |-> "", cacheKey |-> <<>>,
     previousDebugState |-> FALSE, started |-> 0, ended |-> 0, evStart |-> 0,
     evEnd |-> 0, requests |-> 0, src |-> "none", status |-> 0,
     body |-> [error |-> ""]]

\* the number of requests received plus the number of responses sent so far:
\* evStart and evEnd number these events, which orders the calls in time
Events ==
    Cardinality({c \in Calls : calls[c].pc # "idle"})
        + Cardinality({c \in Calls : calls[c].pc = "done"})

\* the value GET gives debugActiveForRequest
DebugFor(stop, route) == DEBUG /\ stop = DEBUG_TARGET.stop /\ route = DEBUG_TARGET.route

\* a response goes out: the finally block restores debugActiveForRequest
Return(call, src, status, body) ==
    [call EXCEPT !.pc = "done", !.ended = clock,
                 !.evEnd = IF call.pc = "idle" THEN Events + 2 ELSE Events + 1,
                 !.src = src, !.status = status, !.body = body]

\* mutant of GetStart: the parameters are not checked
GetStartUnchecked(c, stop, route, datum) ==
    /\ calls[c].pc = "idle"
    /\ \A d \in Calls : d < c => calls[d].pc # "idle"
    /\ LET key == CacheKey(stop, route)
           begun == [calls[c] EXCEPT !.stop = stop, !.route = route, !.datum = datum,
                                     !.started = clock,
                                     !.evStart = Events + 1,
                                     !.previousDebugState = debugActiveForRequest]
       IN  IF /\ CacheHas(scheduleCache, key)
              /\ IsFresh(scheduleCache[key])
              /\ ~IsOldUrl(scheduleCache[key].payload.url)
           THEN /\ calls' = [calls EXCEPT ![c] =
                                Return([begun EXCEPT !.cacheKey = key], "cache", 200,
                                       scheduleCache[key].payload)]
                /\ UNCHANGED <<scheduleCache, debugActiveForRequest>>
           ELSE /\ scheduleCache' = CacheDelete(scheduleCache, key)
                /\ calls' = [calls EXCEPT ![c] =
                                [begun EXCEPT !.cacheKey = key, !.pc = "awaiting",
                                              !.requests = 1]]
                /\ debugActiveForRequest' = DebugFor(stop, route)
    /\ UNCHANGED <<clock, upstream>>

\* the handler up to its first await: parameters, cache lookup, upstream request
GetStart(c, stop, route, datum) ==
    /\ calls[c].pc = "idle"
    /\ \A d \in Calls : d < c => calls[d].pc # "idle"
    /\ LET key == CacheKey(stop, route)
           begun == [calls[c] EXCEPT !.stop = stop, !.route = route, !.datum = datum,
                                     !.started = clock,
                                     !.evStart = Events + 1,
                                     !.previousDebugState = debugActiveForRequest]
       IN  IF Len(stop) = 0 \/ Len(route) = 0
           THEN /\ calls' = [calls EXCEPT ![c] =
                                Return(begun, "bad", 400, [error |-> ERROR_MISSING])]
                /\ UNCHANGED <<scheduleCache, debugActiveForRequest>>
           ELSE IF /\ CacheHas(scheduleCache, key)
                   /\ IsFresh(scheduleCache[key])
                   /\ ~IsOldUrl(scheduleCache[key].payload.url)
           THEN /\ calls' = [calls EXCEPT ![c] =
                                Return([begun EXCEPT !.cacheKey = key], "cache", 200,
                                       scheduleCache[key].payload)]
                /\ UNCHANGED <<scheduleCache, debugActiveForRequest>>
           ELSE /\ scheduleCache' = CacheDelete(scheduleCache, key)
                /\ calls' = [calls EXCEPT ![c] =
                                [begun EXCEPT !.cacheKey = key, !.pc = "awaiting",
                                              !.requests = 1]]
                /\ debugActiveForRequest' = DebugFor(stop, route)
    /\ UNCHANGED <<clock, upstream>>

\* mutant of GetFetchOk: an entry that is there keeps its payload and gets a
\* new timestamp
GetFetchOkTorn(c) ==
    /\ calls[c].pc = "awaiting"
    /\ LET call == calls[c]
           result == BuildResult(call.stop, call.route, call.datum, upstream,
                                 getCurrentTimeMinutes)
       IN  /\ scheduleCache' =
                  CacheSet(scheduleCache, call.cacheKey,
                           [timestamp |-> DateNow,
                            payload |-> IF CacheHas(scheduleCache, call.cacheKey)
                                        THEN scheduleCache[call.cacheKey].payload
                                        ELSE result])
           /\ calls' = [calls EXCEPT ![c] = Return(call, "live", 200, result)]
           /\ debugActiveForRequest' = call.previousDebugState
    /\ UNCHANGED <<clock, upstream>>

\* mutant of GetFetchOk: an entry that is there is kept
GetFetchOkIfAbsent(c) ==
    /\ calls[c].pc = "awaiting"
    /\ LET call == calls[c]
           result == BuildResult(call.stop, call.route, call.datum, upstream,
                                 getCurrentTimeMinutes)
       IN  /\ scheduleCache' =
                  IF CacheHas(scheduleCache, call.cacheKey)
                  THEN scheduleCache
                  ELSE CacheSet(scheduleCache, call.cacheKey,
                                [timestamp |-> DateNow, payload |-> result])
           /\ calls' = [calls EXCEPT ![c] = Return(call, "live", 200, result)]
           /\ debugActiveForRequest' = call.previousDebugState
    /\ UNCHANGED <<clock, upstream>>

\* axios.get resolves with the upstream's list: normalise, cache, respond
GetFetchOk(c) ==
    /\ calls[c].pc = "awaiting"
    /\ LET call == calls[c]
           result == BuildResult(call.stop, call.route, call.datum, upstream,
                                 getCurrentTimeMinutes)
       IN  /\ scheduleCache' = CacheSet(scheduleCache, call.cacheKey,
                                        [timestamp |-> DateNow, payload |-> result])
           /\ calls' = [calls EXCEPT ![c] = Return(call, "live", 200, result)]
           /\ debugActiveForRequest' = call.previousDebugState
    /\ UNCHANGED <<clock, upstream>>

\* mutant of GetFetchFail: after the failure the handler awaits something
\* that never comes
GetFetchFailHang(c) ==
    /\ calls[c].pc = "awaiting"
    /\ calls' = [calls EXCEPT ![c].pc = "hung"]
    /\ UNCHANGED <<clock, upstream, scheduleCache, debugActiveForRequest>>

\* mutant of GetFetchFail: a failed request is sent once more before the
\* catch block answers
GetFetchFailRetry(c) ==
    /\ calls[c].pc = "awaiting"
    /\ LET call == calls[c]
       IN  IF call.requests < 2
           THEN /\ calls' = [calls EXCEPT ![c].requests = @ + 1]
                /\ UNCHANGED <<scheduleCache, debugActiveForRequest>>
           ELSE /\ scheduleCache' = CacheDelete(scheduleCache, call.cacheKey)
                /\ calls' = [calls EXCEPT ![c] =
                                Return(call, "fallback", 500,
                                       FallbackResult(call.stop, call.route, call.datum))]
                /\ debugActiveForRequest' = call.previousDebugState
    /\ UNCHANGED <<clock, upstream>>

\* mutant of GetFetchFail: the catch block leaves the cache alone
GetFetchFailKeep(c) ==
    /\ calls[c].pc = "awaiting"
    /\ LET call == calls[c]
       IN  /\ calls' = [calls EXCEPT ![c] =
                           [call EXCEPT !.pc = "done", !.ended = clock,
                                        !.evEnd = Events + 1,
                                        !.src = "fallback", !.status = 500,
                                        !.body = [stop |-> call.stop, route |-> call.route,
                                                  date |-> call.datum, schedules |-> <<>>,
                                                  url |-> WebsiteUrl(call.stop),
                                                  note |-> NOTE_UNABLE]]]
           /\ debugActiveForRequest' = call.previousDebugState
    /\ UNCHANGED <<clock, upstream, scheduleCache>>

\* axios.get rejects (timeout, network error, non-2xx): the catch block
GetFetchFail(c) ==
    /\ calls[c].pc = "awaiting"
    /\ LET call == calls[c]
       IN  /\ scheduleCache' = IF Len(call.cacheKey) > 0
                               THEN CacheDelete(scheduleCache, call.cacheKey)
                               ELSE scheduleCache
           /\ calls' = [calls EXCEPT ![c] =
                           Return(call, "fallback", 500,
                                  FallbackResult(call.stop, call.route, call.datum))]
           /\ debugActiveForRequest' = call.previousDebugState
    /\ UNCHANGED <<clock, upstream>>

(***************************************************************************)
(* The environment: the wall clock                                         *)
(***************************************************************************)
\* time passes; a pending upstream request ends within the axios timeout
Tick(d) ==
    /\ clock + d <= ClockStart + MaxElapsed
    /\ \A c \in Calls :
           calls[c].pc = "awaiting" =>
               (clock + d - calls[c].started) * 1000 <= AXIOS_TIMEOUT_MS
    /\ clock' = clock + d
    /\ UNCHANGED <<upstream, scheduleCache, debugActiveForRequest, calls>>

(***************************************************************************)
(* The page: groups, fetchSchedule, fetchAllSchedules, merge and card       *)
(***************************************************************************)
Refreshes == 1..MaxRefreshes

Stop255 == <<"2", "5", "5">>

GroupCity == [id |-> <<"c", "2", "h">>,
              stops |-> <<[stopId |-> Stop359, route |-> G6],
                          [stopId |-> Stop359, route |-> P18]>>]

GroupHome == [id |-> <<"h", "2", "c">>, stops |-> <<[stopId |-> Stop255, route |-> G6]>>]

\* the lists of pinned groups a behaviour of the page starts with
PageGroupLists == {<<GroupCity>>, <<GroupHome, GroupCity>>}

\* the largest number of groups of a list, and of pairs of a group
MaxGroups == 2
MaxPairs == 2

\* what starts a refresh-all
Triggers == {"effect", "button", "tryAgain"}

\* the minutes of the day at which the route computes the responses of the page
PageMinutes == {8 * 60 + 9}

\* the lists the upstream serves while the page is open
PageFeeds == {FeedBusy, FeedMixed}

\* the bodies the route answers a request of the page with: computed from an
\* upstream list (also when served from the cache), or the fallback (status 500)
PageResponses(stopId, route) ==
    {BuildResult(stopId, route, Today, feed, m) : feed \in PageFeeds, m \in PageMinutes}
        \cup {FallbackResult(stopId, route, Today)}

\* schedules[key] after a failed fetch
NullResponse == [isNull |-> TRUE]

\* `${busStopId}-${stopId}-${route}`
ScheduleKey(busStopId, stopId, route) ==
    busStopId \o <<"-">> \o stopId \o <<"-">> \o route

KeyOfPair(stops, g, i) ==
    ScheduleKey(stops[g].id, stops[g].stops[i].stopId, stops[g].stops[i].route)

\* the positions <<group, pair>> of the pairs of a list of groups
PairsOf(stops) == {p \in (1..Len(stops)) \X (1..MaxPairs) : p[2] <= Len(stops[p[1]].stops)}

\* prev => ({ ...prev, [key]: value })
MapSet(map, key, value) ==
    [k \in (DOMAIN map) \cup {key} |-> IF k = key THEN value ELSE map[k]]

\* the same update for several keys
MapSetAll(map, keys, value) ==
    [k \in (DOMAIN map) \cup keys |-> IF k \in keys THEN value ELSE map[k]]

\* a fetchAllSchedules that has not been called
IdleRefresh == [pc |-> "idle", stops |-> <<>>, settled |-> {}]

\* the timeToMinutes of getMergedSchedules: no check for NaN
pageTimeToMinutes(time) ==
    LET parts == Split(time, ":")
        hours == ToNumber(parts[1])
        minutes == IF Len(parts) >= 2 THEN ToNumber(parts[2]) ELSE Undefined
    IN  JsTimes60Plus(hours, minutes)

\* timeA - timeB >= 0, as Array.prototype.sort reads the comparator: NaN counts as 0
PageNotBefore(a, b) ==
    LET timeA == pageTimeToMinutes(a.schedule.time)
        timeB == pageTimeToMinutes(b.schedule.time)
    IN  IF timeA.k = "num" /\ timeB.k = "num" THEN timeA.v - timeB.v >= 0 ELSE TRUE

RECURSIVE InsertDeparture(_, _)
InsertDeparture(sorted, a) ==
    IF Len(sorted) = 0 THEN <<a>>
    ELSE IF PageNotBefore(a, sorted[Len(sorted)])
         THEN Append(sorted, a)
         ELSE Append(InsertDeparture(SubSeq(sorted, 1, Len(sorted) - 1), a),
                     sorted[Len(sorted)])

\* mutant of SortDepartures: the order of the pairs is kept
SortDeparturesNone(all) == all

RECURSIVE SortDepartures(_)
SortDepartures(all) ==
    IF Len(all) = 0 THEN <<>>
    ELSE InsertDeparture(SortDepartures(SubSeq(all, 1, Len(all) - 1)), all[Len(all)])

\* scheduleResponse?.schedules is there
HasSchedules(map, key) == key \in DOMAIN map /\ "schedules" \in DOMAIN map[key]

\* the departures of one pair, tagged with its route and stop
TaggedSchedules(busStop, i) ==
    LET stopRoute == busStop.stops[i]
        key == ScheduleKey(busStop.id, stopRoute.stopId, stopRoute.route)
    IN  IF HasSchedules(schedules, key)
        THEN [j \in 1..Len(schedules[key].schedules) |->
                 [schedule |-> schedules[key].schedules[j],
                  route |-> stopRoute.route, stopId |-> stopRoute.stopId]]
        ELSE <<>>

\* allSchedules: the departures of the pairs of a group, pair after pair
RECURSIVE AllSchedulesUpTo(_, _)
AllSchedulesUpTo(busStop, n) ==
    IF n = 0 THEN <<>>
    ELSE AllSchedulesUpTo(busStop, n - 1) \o TaggedSchedules(busStop, n)

getMergedSchedules(busStop) ==
    Slice3(SortDepartures(AllSchedulesUpTo(busStop, Len(busStop.stops))))

isBusStopLoading(busStop) ==
    \E i \in 1..Len(busStop.stops) :
        LET key == ScheduleKey(busStop.id, busStop.stops[i].stopId, busStop.stops[i].route)
        IN  key \in DOMAIN loading /\ loading[key]

hasBusStopFailed(busStop) ==
    \E i \in 1..Len(busStop.stops) :
        LET key == ScheduleKey(busStop.id, busStop.stops[i].stopId, busStop.stops[i].route)
        IN  key \in DOMAIN failed /\ failed[key]

\* what the card of a group shows
Card(busStop) ==
    IF isBusStopLoading(busStop) THEN [kind |-> "loading", items |-> <<>>]
    ELSE IF hasBusStopFailed(busStop) THEN [kind |-> "failed", items |-> <<>>]
    ELSE IF Len(getMergedSchedules(busStop)) > 0
         THEN [kind |-> "departures", items |-> getMergedSchedules(busStop)]
         ELSE [kind |-> "none", items |-> <<>>]

\* fetchAllSchedules up to its await: every fetchSchedule runs to its fetch
fetchAllSchedules(r, trigger) ==
    /\ refreshes[r].pc = "idle"
    /\ \A q \in Refreshes : q < r => refreshes[q].pc # "idle"
    /\ CASE trigger = "effect" ->
                r = 1 /\ Len(pinnedStops) > 0 /\ DOMAIN schedules = {}
         [] trigger = "button" ->
                r > 1 /\ Len(pinnedStops) > 0 /\ ~refreshing
         [] trigger = "tryAgain" ->
                r > 1 /\ \E g \in 1..Len(pinnedStops) : Card(pinnedStops[g]).kind = "failed"
    /\ LET keys == {KeyOfPair(pinnedStops, p[1], p[2]) : p \in PairsOf(pinnedStops)}
       IN  /\ refreshing' = TRUE
           /\ loading' = MapSetAll(loading, keys, TRUE)
           /\ failed' = MapSetAll(failed, keys, FALSE)
           /\ refreshes' = [refreshes EXCEPT ![r] =
                               [pc |-> "waiting", stops |-> pinnedStops, settled |-> {}]]
    /\ UNCHANGED <<pinnedStops, schedules, lastUpdated>>

\* the fetch of pair i of group g of refresh r is under way
FetchPending(r, g, i) ==
    /\ refreshes[r].pc = "waiting"
    /\ <<g, i>> \in PairsOf(refreshes[r].stops)
    /\ <<g, i>> \notin refreshes[r].settled

\* fetchSchedule after its await: the response arrived and is JSON
FetchResolve(r, g, i) ==
    /\ FetchPending(r, g, i)
    /\ LET pair == refreshes[r].stops[g].stops[i]
           key == KeyOfPair(refreshes[r].stops, g, i)
       IN  \E data \in PageResponses(pair.stopId, pair.route) :
               /\ schedules' = MapSet(schedules, key, data)
               /\ failed' = MapSet(failed, key, FALSE)
               /\ loading' = MapSet(loading, key, FALSE)
    /\ refreshes' = [refreshes EXCEPT ![r].settled = @ \cup {<<g, i>>}]
    /\ UNCHANGED <<pinnedStops, refreshing, lastUpdated>>

\* fetchSchedule after its await: fetch or response.json() threw
FetchReject(r, g, i) ==
    /\ FetchPending(r, g, i)
    /\ LET key == KeyOfPair(refreshes[r].stops, g, i)
       IN  /\ schedules' = MapSet(schedules, key, NullResponse)
           /\ failed' = MapSet(failed, key, TRUE)
           /\ loading' = MapSet(loading, key, FALSE)
    /\ refreshes' = [refreshes EXCEPT ![r].settled = @ \cup {<<g, i>>}]
    /\ UNCHANGED <<pinnedStops, refreshing, lastUpdated>>

\* mutant of FetchAllSettled: a join that ends with the first fetch that settles
FetchAllSettledAny(r) ==
    /\ refreshes[r].pc = "waiting"
    /\ refreshes[r].settled # {}
    /\ lastUpdated' = r
    /\ refreshing' = FALSE
    /\ refreshes' = [refreshes EXCEPT ![r].pc = "done"]
    /\ UNCHANGED <<pinnedStops, schedules, loading, failed>>

\* fetchAllSchedules after Promise.allSettled: the finally block
FetchAllSettled(r) ==
    /\ refreshes[r].pc = "waiting"
    /\ refreshes[r].settled = PairsOf(refreshes[r].stops)
    /\ lastUpdated' = r
    /\ refreshing' = FALSE
    /\ refreshes' = [refreshes EXCEPT ![r].pc = "done"]
    /\ UNCHANGED <<pinnedStops, schedules, loading, failed>>

(***************************************************************************)
(* The page: changes of the pinned groups made in the BusStopManager        *)
(***************************************************************************)
\* GroupCity after an update that dropped its pair 359/P18
GroupCityG6 == [id |-> GroupCity.id, stops |-> <<[stopId |-> Stop359, route |-> G6]>>]

HasGroup(stops, id) == \E g \in 1..Len(stops) : stops[g].id = id

\* removePinnedStop: stops.filter(s => s.id !== id)
RemoveGroup(stops, id) == SelectSeq(stops, LAMBDA b : b.id # id)

\* addPinnedStop: nothing if the id exists, else the group goes to the end
AddGroup(stops, busStop) ==
    IF HasGroup(stops, busStop.id) THEN stops ELSE Append(stops, busStop)

\* updatePinnedStop: the group of that id gets the new pairs
UpdateGroup(stops, id, pairs) ==
    [g \in 1..Len(stops) |->
        IF stops[g].id = id THEN [stops[g] EXCEPT !.stops = pairs] ELSE stops[g]]

\* the lists one operation of the manager turns the list into: handleAdd of
\* GroupHome, handleDelete of a group, handleUpdate of GroupCity to one pair
ManagerChanges(stops) ==
    ({AddGroup(stops, GroupHome)}
        \cup {RemoveGroup(stops, stops[g].id) : g \in 1..Len(stops)}
        \cup {UpdateGroup(stops, GroupCity.id, GroupCityG6.stops)})
    \ {stops, <<>>}

KeysOf(stops) == {KeyOfPair(stops, p[1], p[2]) : p \in PairsOf(stops)}

\* the filter of handleStopsChange: the entries whose key is a pair of stops
FilterSchedules(map, stops) == [k \in (DOMAIN map) \cap KeysOf(stops) |-> map[k]]

\* handleStopsChange(stops), with the render it causes: the timer keeps the
\* fetchAllSchedules of the render in which the handler was made, which reads
\* the list of that render; the effect on pinnedStops.length runs after the
\* new render and calls the fetchAllSchedules of that one
handleStopsChange(r, stops) ==
    /\ refreshes[1].pc # "idle"
    /\ refreshes[r].pc = "idle"
    /\ \A q \in Refreshes : q < r => refreshes[q].pc # "idle"
    /\ Len(stops) <= MaxGroups
    /\ stops \in ManagerChanges(pinnedStops)
    /\ pinnedStops' = stops
    /\ schedules' = FilterSchedules(schedules, stops)
    /\ IF /\ Len(stops) # Len(pinnedStops)
          /\ Len(stops) > 0
          /\ DOMAIN FilterSchedules(schedules, stops) = {}
       THEN /\ r + 1 \in Refreshes
            /\ refreshes' = [refreshes EXCEPT
                                ![r] = [pc |-> "timer", stops |-> pinnedStops,
                                        settled |-> {}],
                                ![r + 1] = [pc |-> "waiting", stops |-> stops,
                                            settled |-> {}]]
            /\ refreshing' = TRUE
            /\ loading' = MapSetAll(loading, KeysOf(stops), TRUE)
            /\ failed' = MapSetAll(failed, KeysOf(stops), FALSE)
       ELSE /\ refreshes' = [refreshes EXCEPT
                                ![r] = [pc |-> "timer", stops |-> pinnedStops,
                                        settled |-> {}]]
            /\ UNCHANGED <<refreshing, loading, failed>>
    /\ UNCHANGED lastUpdated

\* the timer of handleStopsChange fires: fetchAllSchedules up to its await,
\* on the list its closure holds
TimerFetchAll(r) ==
    /\ refreshes[r].pc = "timer"
    /\ refreshing' = TRUE
    /\ loading' = MapSetAll(loading, KeysOf(refreshes[r].stops), TRUE)
    /\ failed' = MapSetAll(failed, KeysOf(refreshes[r].stops), FALSE)
    /\ refreshes' = [refreshes EXCEPT ![r].pc = "waiting"]
    /\ UNCHANGED <<pinnedStops, schedules, lastUpdated>>

(***************************************************************************)
(* The schedules route of src/app/api/schedules: scraping with mock data     *)
(***************************************************************************)
\* the UTF-16 code unit of a character of a time string
CodeUnit(ch) ==
    CASE IsDigit(ch) -> 48 + DigitVal(ch)
      [] ch = ":" -> 58
      [] ch = " " -> 32
      [] ch = "(" -> 40
      [] ch = ")" -> 41
      [] ch = "+" -> 43
      [] OTHER -> 97

\* a < b for two strings: code unit by code unit, a proper prefix is smaller
RECURSIVE StrLess(_, _)
StrLess(a, b) ==
    IF Len(b) = 0 THEN FALSE
    ELSE IF Len(a) = 0 THEN TRUE
    ELSE IF a[1] = b[1] THEN StrLess(Tail(a), Tail(b))
    ELSE CodeUnit(a[1]) < CodeUnit(b[1])

\* the rank of a character in the collation of localeCompare: white space and
\* punctuation before the digits, the digits before the letters
CollationRank(ch) ==
    CASE IsDigit(ch) -> 10 + DigitVal(ch)
      [] ch = " " -> 1
      [] ch = ":" -> 2
      [] ch = "(" -> 3
      [] ch = ")" -> 4
      [] ch = "+" -> 5
      [] OTHER -> 20

\* a.localeCompare(b) < 0
RECURSIVE LocaleLess(_, _)
LocaleLess(a, b) ==
    IF Len(b) = 0 THEN FALSE
    ELSE IF Len(a) = 0 THEN TRUE
    ELSE IF a[1] = b[1] THEN LocaleLess(Tail(a), Tail(b))
    ELSE CollationRank(a[1]) < CollationRank(b[1])

\* "HH:MM" of a minute of the day, as the mock tables spell it
MockTime(minute) ==
    PadStart2(NumToStr(minute \div 60)) \o <<":">> \o PadStart2(NumToStr(minute % 60))

\* a mock table: n times, one every 30 minutes from the first
HalfHourly(first, n) == [i \in 1..n |-> MockTime(first + 30 * (i - 1))]

Stop347 == <<"3", "4", "7">>

\* '255': 07:15 .. 20:45, '359': 07:30 .. 21:00, '347': 07:20 .. 20:20
MOCK_SCHEDULES ==
    [stop \in {Stop255, Stop359, Stop347} |->
        CASE stop = Stop255 -> HalfHourly(7 * 60 + 15, 28)
          [] stop = Stop359 -> HalfHourly(7 * 60 + 30, 28)
          [] stop = Stop347 -> HalfHourly(7 * 60 + 20, 27)]

NOTE_TOMORROW == "No more buses today - showing tomorrow's first departures"

PLUS_ONE_DAY == <<" ", "(", "+", "1", " ", "d", "a", "y", ")">>

\* `https://vozniredi.marprom.si/?stop=${stop}&datum=${datum}&route=${route}`;
\* the date is one element of the sequence
ScrapeUrl(stop, route, datum) ==
    <<"h", "t", "t", "p", "s", ":", "/", "/", "v", "o", "z", "n", "i", "r", "e", "d", "i",
      ".", "m", "a", "r", "p", "r", "o", "m", ".", "s", "i", "/", "?",
      "s", "t", "o", "p", "=">> \o stop
        \o <<"&", "d", "a", "t", "u", "m", "=", datum>>
        \o <<"&", "r", "o", "u", "t", "e", "=">> \o route

\* schedules.filter((schedule, index, self) =>
\*     index === self.findIndex(s => s.time === schedule.time))
RemoveDuplicates(scheduleList) ==
    LET keep == {i \in 1..Len(scheduleList) :
                    \A j \in 1..(i - 1) : scheduleList[j].time # scheduleList[i].time}
        F[i \in 0..Len(scheduleList)] ==
            IF i = 0 THEN <<>>
            ELSE IF i \in keep THEN Append(F[i - 1], scheduleList[i]) ELSE F[i - 1]
    IN  F[Len(scheduleList)]

\* sort((a, b) => a.time.localeCompare(b.time)): stable
RECURSIVE InsertByTime(_, _)
InsertByTime(sorted, a) ==
    IF Len(sorted) = 0 THEN <<a>>
    ELSE IF ~LocaleLess(a.time, sorted[Len(sorted)].time)
         THEN Append(sorted, a)
         ELSE Append(InsertByTime(SubSeq(sorted, 1, Len(sorted) - 1), a),
                     sorted[Len(sorted)])

RECURSIVE SortByTime(_)
SortByTime(scheduleList) ==
    IF Len(scheduleList) = 0 THEN <<>>
    ELSE InsertByTime(SortByTime(SubSeq(scheduleList, 1, Len(scheduleList) - 1)),
                      scheduleList[Len(scheduleList)])

\* slice(0, 2)
Slice2(s) == SubSeq(s, 1, IF Len(s) < 2 THEN Len(s) ELSE 2)

\* the schedules the route works on: the scraped ones, or the mock table of the stop
ScrapedOrMock(stop, scraped) ==
    IF Len(RemoveDuplicates(scraped)) = 0 /\ stop \in DOMAIN MOCK_SCHEDULES
    THEN [i \in 1..Len(MOCK_SCHEDULES[stop]) |->
             [time |-> MOCK_SCHEDULES[stop][i], destination |-> NoValue]]
    ELSE RemoveDuplicates(scraped)

\* the body GET of the scraping route answers with: scraped is what the page of
\* the operator yielded (<<>> when the request failed), currentTime is "HH:MM"
ScrapeResult(stop, route, datum, scraped, currentTime) ==
    LET scheduleList == ScrapedOrMock(stop, scraped)
        futureSchedules ==
            Slice2(SortByTime(SelectSeq(scheduleList,
                                        LAMBDA x : StrLess(currentTime, x.time))))
        allSchedules == Slice2(SortByTime(scheduleList))
    IN  IF Len(futureSchedules) = 0
        THEN [stop |-> stop, route |-> route, date |-> datum,
              schedules |-> [i \in 1..Len(allSchedules) |->
                                [allSchedules[i] EXCEPT !.time = @ \o PLUS_ONE_DAY]],
              url |-> ScrapeUrl(stop, route, datum),
              note |-> NOTE_TOMORROW]
        ELSE [stop |-> stop, route |-> route, date |-> datum,
              schedules |-> futureSchedules,
              url |-> ScrapeUrl(stop, route, datum),
              note |-> NoValue]

\* a group the user pinned with pairs of two different stops
GroupOffice == [id |-> <<"o", "2", "h">>,
                stops |-> <<[stopId |-> Stop347, route |-> G6],
                            [stopId |-> Stop359, route |-> P18]>>]

ScrapeGroupLists == {<<GroupOffice>>, <<GroupHome, GroupOffice>>}

\* the wall-clock times "HH:MM" at which the scraping route answers the page
ScrapeTimes == {<<"0", "8", ":", "0", "9">>, <<"2", "0", ":", "3", "0">>}

\* the bodies the scraping route answers a request of the page with when the
\* page of the operator cannot be scraped
ScrapeResponses(stopId, route) ==
    {ScrapeResult(stopId, route, Today, <<>>, currentTime) : currentTime \in ScrapeTimes}

\* fetchSchedule after its await, answered by the scraping route
FetchResolveScrape(r, g, i) ==
    /\ FetchPending(r, g, i)
    /\ LET pair == refreshes[r].stops[g].stops[i]
           key == KeyOfPair(refreshes[r].stops, g, i)
       IN  \E data \in ScrapeResponses(pair.stopId, pair.route) :
               /\ schedules' = MapSet(schedules, key, data)
               /\ failed' = MapSet(failed, key, FALSE)
               /\ loading' = MapSet(loading, key, FALSE)
    /\ refreshes' = [refreshes EXCEPT ![r].settled = @ \cup {<<g, i>>}]
    /\ UNCHANGED <<pinnedStops, refreshing, lastUpdated>>

\* the route module after loading: empty cache, no request yet
InitRoute(feeds) ==
    /\ clock = ClockStart
    /\ upstream \in feeds
    /\ scheduleCache = <<>>
    /\ debugActiveForRequest = FALSE
    /\ calls = [c \in Calls |-> IdleCall]

\* a function that has not been called has returned nothing
NotApplied == [k |-> "none", v |-> 0]

\* the item as nobody has written it, and as savePinnedStops writes it
NoItem == [by |-> "nobody", stops |-> <<>>]

NoCall == [op |-> "none", id |-> <<>>, before |-> NoItem, result |-> <<>>]

\* the storage module has not been called and the item is not set
InitNoStore ==
    /\ localStorage = NoItem
    /\ storeCall = NoCall

\* no string has been handed to the time utilities
InitNoTime ==
    /\ timeSeconds = 0
    /\ timeText = <<>>
    /\ timeMinutes = [route |-> NotApplied, page |-> NotApplied]

\* the page before its groups are loaded
InitNoPage ==
    /\ pinnedStops = <<>>
    /\ schedules = <<>>
    /\ loading = <<>>
    /\ failed = <<>>
    /\ refreshing = FALSE
    /\ lastUpdated = 0
    /\ refreshes = [r \in Refreshes |-> IdleRefresh]

Init == InitRoute(Feeds) /\ InitNoPage /\ InitNoTime /\ InitNoStore

Next ==
    \/ \E c \in Calls, r \in Requests :
           GetStart(c, r.stop, r.route, Today) /\ UNCHANGED <<pageVars, timeVars, storeVars>>
    \/ \E c \in Calls : GetFetchOk(c) /\ UNCHANGED <<pageVars, timeVars, storeVars>>
    \/ \E c \in Calls : GetFetchFail(c) /\ UNCHANGED <<pageVars, timeVars, storeVars>>
    \/ \E d \in TickSteps : Tick(d) /\ UNCHANGED <<pageVars, timeVars, storeVars>>

Spec == Init /\ [][Next]_vars

\* the same handler, asked for a stop id that looks like the old API url
NextLegacy ==
    \/ \E c \in Calls, r \in LegacyRequests :
           GetStart(c, r.stop, r.route, Today) /\ UNCHANGED <<pageVars, timeVars, storeVars>>
    \/ \E c \in Calls : GetFetchOk(c) /\ UNCHANGED <<pageVars, timeVars, storeVars>>
    \/ \E c \in Calls : GetFetchFail(c) /\ UNCHANGED <<pageVars, timeVars, storeVars>>
    \/ \E d \in TickSteps : Tick(d) /\ UNCHANGED <<pageVars, timeVars, storeVars>>

SpecLegacy == Init /\ [][NextLegacy]_vars

\* the same handler on every arrival list of the pool, for one key
InitWide == InitRoute(WideFeeds) /\ InitNoPage /\ InitNoTime /\ InitNoStore

NextWide ==
    \/ \E c \in WideCalls : GetStart(c, Stop359, G6, Today) /\ UNCHANGED <<pageVars, timeVars, storeVars>>
    \/ \E c \in WideCalls : GetFetchOk(c) /\ UNCHANGED <<pageVars, timeVars, storeVars>>
    \/ \E c \in WideCalls : GetFetchFail(c) /\ UNCHANGED <<pageVars, timeVars, storeVars>>
    \/ \E d \in TickSteps : Tick(d) /\ UNCHANGED <<pageVars, timeVars, storeVars>>

SpecWide == InitWide /\ [][NextWide]_vars

\* the steps of the wall clock that fit into the timeout of a pending request
RaceTickSteps == {10}

\* requests for one key that overlap in time while the clock runs
NextRace ==
    \/ \E c \in Calls : GetStart(c, Stop359, G6, Today) /\ UNCHANGED <<pageVars, timeVars, storeVars>>
    \/ \E c \in Calls : GetFetchOk(c) /\ UNCHANGED <<pageVars, timeVars, storeVars>>
    \/ \E c \in Calls : GetFetchFail(c) /\ UNCHANGED <<pageVars, timeVars, storeVars>>
    \/ \E d \in RaceTickSteps : Tick(d) /\ UNCHANGED <<pageVars, timeVars, storeVars>>

SpecRace == Init /\ [][NextRace]_vars

\* the same handler, asked with and without its parameters
NextParams ==
    \/ \E c \in Calls, r \in ParamRequests :
           GetStart(c, r.stop, r.route, Today) /\ UNCHANGED <<pageVars, timeVars, storeVars>>
    \/ \E c \in Calls : GetFetchOk(c) /\ UNCHANGED <<pageVars, timeVars, storeVars>>
    \/ \E c \in Calls : GetFetchFail(c) /\ UNCHANGED <<pageVars, timeVars, storeVars>>
    \/ \E d \in TickSteps : Tick(d) /\ UNCHANGED <<pageVars, timeVars, storeVars>>

SpecParams == Init /\ [][NextParams]_vars

\* the page after mount, with its groups loaded and nothing fetched yet
InitPage ==
    /\ InitRoute({FeedBusy})
    /\ InitNoTime /\ InitNoStore
    /\ pinnedStops \in PageGroupLists
    /\ schedules = <<>>
    /\ loading = <<>>
    /\ failed = <<>>
    /\ refreshing = FALSE
    /\ lastUpdated = 0
    /\ refreshes = [r \in Refreshes |-> IdleRefresh]

NextPage ==
    \/ \E r \in Refreshes, trigger \in Triggers :
           fetchAllSchedules(r, trigger) /\ UNCHANGED <<routeVars, timeVars, storeVars>>
    \/ \E r \in Refreshes, g \in 1..MaxGroups, i \in 1..MaxPairs :
           FetchResolve(r, g, i) /\ UNCHANGED <<routeVars, timeVars, storeVars>>
    \/ \E r \in Refreshes, g \in 1..MaxGroups, i \in 1..MaxPairs :
           FetchReject(r, g, i) /\ UNCHANGED <<routeVars, timeVars, storeVars>>
    \/ \E r \in Refreshes : FetchAllSettled(r) /\ UNCHANGED <<routeVars, timeVars, storeVars>>

SpecPage == InitPage /\ [][NextPage]_vars

\* the page served by the scraping route
InitPageScrape ==
    /\ InitRoute({FeedBusy})
    /\ InitNoTime /\ InitNoStore
    /\ pinnedStops \in ScrapeGroupLists
    /\ schedules = <<>>
    /\ loading = <<>>
    /\ failed = <<>>
    /\ refreshing = FALSE
    /\ lastUpdated = 0
    /\ refreshes = [r \in Refreshes |-> IdleRefresh]

NextPageScrape ==
    \/ \E r \in Refreshes, trigger \in Triggers :
           fetchAllSchedules(r, trigger) /\ UNCHANGED <<routeVars, timeVars, storeVars>>
    \/ \E r \in Refreshes, g \in 1..MaxGroups, i \in 1..MaxPairs :
           FetchResolveScrape(r, g, i) /\ UNCHANGED <<routeVars, timeVars, storeVars>>
    \/ \E r \in Refreshes, g \in 1..MaxGroups, i \in 1..MaxPairs :
           FetchReject(r, g, i) /\ UNCHANGED <<routeVars, timeVars, storeVars>>
    \/ \E r \in Refreshes : FetchAllSettled(r) /\ UNCHANGED <<routeVars, timeVars, storeVars>>

SpecPageScrape == InitPageScrape /\ [][NextPageScrape]_vars

\* the page with a user who changes the pinned groups
NextChange ==
    \/ \E r \in Refreshes, trigger \in Triggers :
           fetchAllSchedules(r, trigger) /\ UNCHANGED <<routeVars, timeVars, storeVars>>
    \/ \E r \in Refreshes, stops \in ManagerChanges(pinnedStops) :
           handleStopsChange(r, stops) /\ UNCHANGED <<routeVars, timeVars, storeVars>>
    \/ \E r \in Refreshes : TimerFetchAll(r) /\ UNCHANGED <<routeVars, timeVars, storeVars>>
    \/ \E r \in Refreshes, g \in 1..MaxGroups, i \in 1..MaxPairs :
           FetchResolve(r, g, i) /\ UNCHANGED <<routeVars, timeVars, storeVars>>
    \/ \E r \in Refreshes, g \in 1..MaxGroups, i \in 1..MaxPairs :
           FetchReject(r, g, i) /\ UNCHANGED <<routeVars, timeVars, storeVars>>
    \/ \E r \in Refreshes : FetchAllSettled(r) /\ UNCHANGED <<routeVars, timeVars, storeVars>>

SpecChange == InitPage /\ [][NextChange]_vars

\* what the page does by itself, the user being free not to act: the mount
\* effect and the timers run, the joins end
Automatic ==
    \/ fetchAllSchedules(1, "effect")
    \/ \E r \in Refreshes : TimerFetchAll(r)
    \/ \E r \in Refreshes : FetchAllSettled(r)

\* a fetch that is under way settles; fairness is stated for the rejection,
\* which is enabled exactly as long as the fetch is under way, so that a fetch
\* may settle either way but not stay pending for ever
Settles ==
    \E r \in Refreshes, g \in 1..MaxGroups, i \in 1..MaxPairs : FetchReject(r, g, i)

SpecChangeFair ==
    /\ InitPage
    /\ [][NextChange]_vars
    /\ WF_vars(Automatic /\ UNCHANGED <<routeVars, timeVars, storeVars>>)
    /\ WF_vars(Settles /\ UNCHANGED <<routeVars, timeVars, storeVars>>)

(***************************************************************************)
(* Properties of the schedules route                                       *)
(***************************************************************************)
Done(c) == calls[c].pc = "done"

\* the call was answered with a schedule payload (not with 400)
Resolved(c) == Done(c) /\ calls[c].src \in {"cache", "live", "fallback"}

\* a zero-padded "HH:MM"
WellFormedTime(time) ==
    /\ Len(time) = 5
    /\ time[3] = ":"
    /\ \A i \in {1, 2, 4, 5} : IsDigit(time[i])

\* minutes since midnight of a well-formed "HH:MM"
HhMm(time) ==
    (DigitVal(time[1]) * 10 + DigitVal(time[2])) * 60
        + DigitVal(time[4]) * 10 + DigitVal(time[5])

\* minutes since midnight of a wall clock in seconds
MinuteOfDay(seconds) == (seconds \div 60) % (24 * 60)

\* the link to the page of a stop on the website
StopLink(stopId) ==
    <<"h", "t", "t", "p", "s", ":", "/", "/", "b", "r", "e", "z", "a", "v", "t", "a", ".",
      "s", "i", "/", "s", "t", "o", "p", "/", "M", "A", "R", "P", "R", "O", "M", ":">>
        \o stopId

\* a url of the old API: it contains "/stops/" and "/arrivals"
LegacyShape(url) ==
    /\ \E i \in 1..(Len(url) - 6) :
           SubSeq(url, i, i + 6) = <<"/", "s", "t", "o", "p", "s", "/">>
    /\ \E i \in 1..(Len(url) - 8) :
           SubSeq(url, i, i + 8) = <<"/", "a", "r", "r", "i", "v", "a", "l", "s">>

\* the positions of the upstream records a request for routeId may show
Eligible(arrivals, routeId) ==
    {i \in 1..Len(arrivals) :
        arrivals[i].route_short_name = routeId /\ ~arrivals[i].passed}

\* the time of a record that counts: realtime if flagged so, else scheduled
Effective(a) == IF a.realtime THEN a.arrival_realtime ELSE a.arrival_scheduled

SameKey(c, d) == calls[c].stop = calls[d].stop /\ calls[c].route = calls[d].route

\* call c receives its request in this step
Starts(c) == calls[c].pc = "idle" /\ calls'[c].pc # "idle"

\* C1: every schedule response holds at most 3 schedules, in ascending order of
\* wall-clock time, whatever the upstream list is
C1_AtMostThreeSorted ==
    \A c \in Calls :
        Resolved(c) =>
            LET sch == calls[c].body.schedules
            IN  /\ Len(sch) <= 3
                /\ \A i \in 1..Len(sch) : WellFormedTime(sch[i].time)
                /\ \A i, j \in 1..Len(sch) :
                       i < j => HhMm(sch[i].time) <= HhMm(sch[j].time)

\* a live response of 3 schedules cut from 4 eligible records served out of order
C1_Witness ==
    \E c \in Calls :
        /\ calls[c].src = "live"
        /\ Len(calls[c].body.schedules) = 3
        /\ calls[c].body.note = NoValue
        /\ Cardinality(Eligible(upstream, calls[c].route)) >= 4
        /\ \E i, j \in Eligible(upstream, calls[c].route) :
               i < j /\ Effective(upstream[i]) > Effective(upstream[j])

\* C2: a failed upstream call is answered with a payload that has no schedules,
\* the website link of the requested stop and a note; the handler does not throw
C2_FailureDegrades ==
    \A c \in Calls :
        calls[c].src = "fallback" =>
            /\ Done(c)
            /\ calls[c].body.schedules = <<>>
            /\ calls[c].body.url = StopLink(calls[c].stop)
            /\ calls[c].body.note # NoValue
            /\ calls[c].body.stop = calls[c].stop
            /\ calls[c].body.route = calls[c].route

\* an upstream call has failed and the call was answered
C2_Witness ==
    \E c \in Calls : calls[c].src = "fallback" /\ calls[c].requests = 1 /\ Done(c)

\* C3: once a call has ended in the failure branch, the cache holds no entry for
\* its key until a later live call writes one, and a request for the key that
\* arrives before that goes to the upstream
C3_FailureNotCached ==
    \A c \in Calls :
        calls[c].src = "fallback" =>
            /\ (\A d \in Calls :
                    ~(calls[d].src = "live" /\ SameKey(c, d) /\ calls[d].evEnd > calls[c].evEnd))
                    => ~CacheHas(scheduleCache, CacheKey(calls[c].stop, calls[c].route))
            /\ \A e \in Calls :
                   (/\ SameKey(c, e)
                    /\ calls[e].evStart > calls[c].evEnd
                    /\ \A d \in Calls :
                           ~(/\ calls[d].src = "live"
                             /\ SameKey(c, d)
                             /\ calls[d].evEnd > calls[c].evEnd
                             /\ calls[d].evEnd < calls[e].evStart))
                       => calls[e].requests = 1

\* a call fails after a concurrent call for the same key has cached its result,
\* and the next request for the key goes to the upstream
C3_Witness ==
    \E a, c, e \in Calls :
        /\ calls[a].src = "live" /\ calls[c].src = "fallback"
        /\ SameKey(a, c) /\ SameKey(c, e)
        /\ calls[c].evStart < calls[a].evEnd /\ calls[a].evEnd < calls[c].evEnd
        /\ calls[e].evStart > calls[c].evEnd
        /\ calls[e].requests = 1

\* C4 as claimed: of two calls for the same key, the second received after the
\* first was answered and less than 60 s after the first was received, with an
\* upstream that serves the same list throughout and never fails, the second is
\* served from the cache with the response of the first
C4_AsClaimed ==
    \A c, d \in Calls :
        (/\ Resolved(c) /\ Resolved(d) /\ SameKey(c, d)
         /\ calls[c].evEnd < calls[d].evStart
         /\ (calls[d].started - calls[c].started) * 1000 < 60 * 1000
         /\ \A e \in Calls : calls[e].src # "fallback")
            => calls[d].src = "cache" /\ calls[d].body = calls[c].body

\* C4: a request that finds an entry for its key that is younger than 60 s is
\* answered from the cache, without an upstream request and without touching
\* the cache, with the response of the live call that wrote the entry
C4_CacheHitIdentical ==
    [][\A c \in Calls :
          LET key == CacheKey(calls'[c].stop, calls'[c].route)
          IN  (/\ Starts(c)
               /\ calls'[c].src # "bad"
               /\ CacheHas(scheduleCache, key)
               /\ clock * 1000 - scheduleCache[key].timestamp < 60 * 1000
               /\ ~LegacyShape(scheduleCache[key].payload.url))
                  => /\ calls'[c].src = "cache"
                     /\ calls'[c].requests = 0
                     /\ scheduleCache' = scheduleCache
                     /\ \E d \in Calls :
                            /\ calls[d].src = "live"
                            /\ calls[d].stop = calls'[c].stop
                            /\ calls[d].route = calls'[c].route
                            /\ calls[d].evEnd < calls'[c].evStart
                            /\ (clock - calls[d].ended) * 1000 < 60 * 1000
                            /\ calls'[c].body = calls[d].body]_vars

\* a call is served from the cache, later than the live call whose response it repeats
C4_Witness ==
    \E c, d \in Calls :
        /\ calls[c].src = "live" /\ calls[d].src = "cache"
        /\ SameKey(c, d)
        /\ calls[d].started > calls[c].ended
        /\ calls[d].body = calls[c].body
        /\ Len(calls[d].body.schedules) > 0

\* C5: a request that finds an entry whose url has the shape of the old API url
\* is not answered with it, however young the entry is: the entry is removed and
\* the upstream is asked
C5_LegacyNeverServed ==
    [][\A c \in Calls :
          LET key == CacheKey(calls'[c].stop, calls'[c].route)
          IN  (/\ Starts(c)
               /\ CacheHas(scheduleCache, key)
               /\ LegacyShape(scheduleCache[key].payload.url))
                  => /\ calls'[c].src # "cache"
                     /\ calls'[c].pc = "awaiting"
                     /\ calls'[c].requests = 1
                     /\ ~CacheHas(scheduleCache', key)]_vars

\* a request found an entry of the old shape younger than 60 s and asked the upstream
C5_Witness ==
    \E c, d \in Calls :
        /\ calls[c].src = "live" /\ SameKey(c, d)
        /\ LegacyShape(calls[c].body.url)
        /\ calls[c].evEnd < calls[d].evStart
        /\ \A e \in Calls : calls[e].pc # "idle" => e \in {c, d}
        /\ (calls[d].started - calls[c].ended) * 1000 < 60 * 1000
        /\ calls[d].requests = 1

\* C6: a response comes from the cache only if the entry found is younger than
\* 60 s and its url does not have the old shape; an entry found at an age of 60 s
\* or more is not served and is removed before the upstream is asked
C6_ServedOnlyIfValid ==
    [][\A c \in Calls :
          LET key == CacheKey(calls'[c].stop, calls'[c].route)
          IN  Starts(c) =>
                 /\ calls'[c].src = "cache" =>
                        /\ CacheHas(scheduleCache, key)
                        /\ clock * 1000 - scheduleCache[key].timestamp < 60 * 1000
                        /\ ~LegacyShape(scheduleCache[key].payload.url)
                        /\ calls'[c].body = scheduleCache[key].payload
                 /\ (/\ CacheHas(scheduleCache, key)
                     /\ clock * 1000 - scheduleCache[key].timestamp >= 60 * 1000)
                        => /\ calls'[c].src # "cache"
                           /\ calls'[c].pc = "awaiting"
                           /\ ~CacheHas(scheduleCache', key)]_vars

\* a request found an entry exactly 60 s old and asked the upstream, after
\* another request was served from that entry
C6_Witness ==
    \E c, d, e \in Calls :
        /\ calls[c].src = "live" /\ calls[d].src = "cache" /\ SameKey(c, d) /\ SameKey(c, e)
        /\ calls[d].evEnd < calls[e].evStart
        /\ (calls[e].started - calls[c].ended) * 1000 = 60 * 1000
        /\ calls[e].requests = 1

\* every time of the response is later than the minute in which it was sent
AllFuture(c) ==
    \A i \in 1..Len(calls[c].body.schedules) :
        /\ WellFormedTime(calls[c].body.schedules[i].time)
        /\ HhMm(calls[c].body.schedules[i].time) > MinuteOfDay(calls[c].ended)

\* C7 as claimed: in every response, computed or from the cache, every time is
\* later than the current minute, unless the response has the rollover note
C7_AsClaimed ==
    \A c \in Calls :
        Resolved(c) => calls[c].body.note = NOTE_NEXT_AVAILABLE \/ AllFuture(c)

\* C7: in every response computed from the upstream's answer every time is later
\* than the current minute, unless the response has the rollover note
C7_FreshFuture ==
    \A c \in Calls :
        calls[c].src \in {"live", "fallback"} =>
            calls[c].body.note = NOTE_NEXT_AVAILABLE \/ AllFuture(c)

\* a computed response without the note, from a list with an eligible record of
\* the current minute, which the response leaves out
C7_Witness ==
    \E c \in Calls :
        /\ calls[c].src = "live"
        /\ calls[c].body.note = NoValue
        /\ Len(calls[c].body.schedules) > 0
        /\ \E i \in Eligible(upstream, calls[c].route) :
               Effective(upstream[i]) \div 60 = MinuteOfDay(calls[c].ended)

\* C8: if the upstream serves eligible records and none is later than the
\* current time, the response holds the earliest of them, up to 3, in ascending
\* order, with the rollover note
C8_Rollover ==
    \A c \in Calls :
        LET el == Eligible(upstream, calls[c].route)
            sch == calls[c].body.schedules
        IN  (/\ calls[c].src = "live"
             /\ el # {}
             /\ \A i \in el : Effective(upstream[i]) <= calls[c].ended)
                => /\ calls[c].body.note = NOTE_NEXT_AVAILABLE
                   /\ Len(sch) = (IF Cardinality(el) < 3 THEN Cardinality(el) ELSE 3)
                   /\ \A i, j \in 1..Len(sch) :
                          i < j => HhMm(sch[i].time) <= HhMm(sch[j].time)
                   /\ \E f \in [1..Len(sch) -> el] :
                          /\ \A i, j \in 1..Len(sch) : i # j => f[i] # f[j]
                          /\ \A i \in 1..Len(sch) :
                                 HhMm(sch[i].time) = Effective(upstream[f[i]]) \div 60
                          /\ \A k \in el :
                                 (\A i \in 1..Len(sch) : f[i] # k)
                                    => \A i \in 1..Len(sch) :
                                           Effective(upstream[k]) >= Effective(upstream[f[i]])

\* a response with the note for a list of two or more eligible records, all over
C8_Witness ==
    \E c \in Calls :
        /\ calls[c].src = "live"
        /\ Cardinality(Eligible(upstream, calls[c].route)) >= 2
        /\ \A i \in Eligible(upstream, calls[c].route) :
               Effective(upstream[i]) <= calls[c].ended
        /\ Len(calls[c].body.schedules) >= 2
        /\ calls[c].body.note = NOTE_NEXT_AVAILABLE

(***************************************************************************)
(* Properties of the page                                                  *)
(***************************************************************************)
Groups == 1..Len(pinnedStops)

PairKey(busStop, i) ==
    ScheduleKey(busStop.id, busStop.stops[i].stopId, busStop.stops[i].route)

\* the fetch of pair i was answered with a payload that is now in the state
PairSucceeded(busStop, i) ==
    /\ HasSchedules(schedules, PairKey(busStop, i))
    /\ PairKey(busStop, i) \in DOMAIN failed
    /\ ~failed[PairKey(busStop, i)]

\* the fetch of pair i threw: no payload, the failure is flagged
PairFailed(busStop, i) ==
    /\ PairKey(busStop, i) \in DOMAIN schedules
    /\ schedules[PairKey(busStop, i)] = NullResponse
    /\ PairKey(busStop, i) \in DOMAIN failed
    /\ failed[PairKey(busStop, i)]

\* the departures held for the pairs of a group: <<pair, position in its payload>>
Slots(busStop) ==
    {s \in (1..Len(busStop.stops)) \X (1..3) :
        /\ HasSchedules(schedules, PairKey(busStop, s[1]))
        /\ s[2] <= Len(schedules[PairKey(busStop, s[1])].schedules)}

SlotTime(busStop, s) == schedules[PairKey(busStop, s[1])].schedules[s[2]].time

Min3(n) == IF n < 3 THEN n ELSE 3

\* merged is the ascending first three of the departures held for the group,
\* each with the stop and the route of its pair
IsMergeOf(busStop, merged) ==
    /\ Len(merged) = Min3(Cardinality(Slots(busStop)))
    /\ \A k \in 1..Len(merged) : WellFormedTime(merged[k].schedule.time)
    /\ \A k \in 1..(Len(merged) - 1) :
           HhMm(merged[k].schedule.time) <= HhMm(merged[k + 1].schedule.time)
    /\ \E f \in [1..Len(merged) -> Slots(busStop)] :
           /\ \A k, l \in 1..Len(merged) : f[k] = f[l] => k = l
           /\ \A k \in 1..Len(merged) :
                  /\ merged[k].schedule =
                         schedules[PairKey(busStop, f[k][1])].schedules[f[k][2]]
                  /\ merged[k].stopId = busStop.stops[f[k][1]].stopId
                  /\ merged[k].route = busStop.stops[f[k][1]].route
           /\ \A s \in Slots(busStop) :
                  (\A k \in 1..Len(merged) : f[k] # s) =>
                      \A k \in 1..Len(merged) :
                          HhMm(merged[k].schedule.time) <= HhMm(SlotTime(busStop, s))

\* every fetch of the group has settled, one threw and another brought departures
PartialFailure(busStop) ==
    /\ ~isBusStopLoading(busStop)
    /\ \A i \in 1..Len(busStop.stops) : PairSucceeded(busStop, i) \/ PairFailed(busStop, i)
    /\ \E i \in 1..Len(busStop.stops) : PairFailed(busStop, i)
    /\ \E i \in 1..Len(busStop.stops) :
           PairSucceeded(busStop, i) /\ Len(schedules[PairKey(busStop, i)].schedules) > 0

\* C9 as claimed: when the fetches of some pairs of a group fail and others bring
\* departures, the card of the group shows the departures of the successful
\* pairs (ascending, first three) and not a failure of the whole group
C9_AsClaimed ==
    \A g \in Groups :
        PartialFailure(pinnedStops[g]) =>
            /\ Card(pinnedStops[g]).kind = "departures"
            /\ IsMergeOf(pinnedStops[g], Card(pinnedStops[g]).items)

\* a refresh has completed and left a group with 359/G6 answered with three
\* departures and 359/P18 failed
C9_Witness ==
    /\ lastUpdated > 0
    /\ \E g \in Groups :
           /\ PartialFailure(pinnedStops[g])
           /\ Len(pinnedStops[g].stops) = 2
           /\ PairSucceeded(pinnedStops[g], 1)
           /\ Len(schedules[PairKey(pinnedStops[g], 1)].schedules) = 3
           /\ PairFailed(pinnedStops[g], 2)

\* C10: for every group and whatever its pairs were answered with, the merged
\* list is the departures of all its pairs, each tagged with the stopId and the
\* route of its pair, ascending by the minutes of schedule.time, cut to the
\* first three (what is cut is not earlier than what is kept)
C10_MergedSorted ==
    \A g \in Groups : IsMergeOf(pinnedStops[g], getMergedSchedules(pinnedStops[g]))

\* a group holds four departures, 08:15 and 08:25 of its first pair and 08:12 and
\* 08:28 of its second, and its card shows 08:12 (P18), 08:15 (G6), 08:25 (G6)
C10_Witness ==
    \E g \in Groups :
        /\ Cardinality(Slots(pinnedStops[g])) = 4
        /\ Card(pinnedStops[g]).kind = "departures"
        /\ Len(Card(pinnedStops[g]).items) = 3
        /\ Card(pinnedStops[g]).items[1].route = P18
        /\ Card(pinnedStops[g]).items[1].schedule.time = <<"0", "8", ":", "1", "2">>
        /\ Card(pinnedStops[g]).items[2].route = G6
        /\ Card(pinnedStops[g]).items[3].route = G6
        /\ Card(pinnedStops[g]).items[3].schedule.time = <<"0", "8", ":", "2", "5">>

\* a well-formed time stands behind a malformed one in the list
MalformedAhead(list) ==
    \E k, l \in 1..Len(list) :
        /\ k < l
        /\ ~WellFormedTime(list[k].time)
        /\ WellFormedTime(list[l].time)

MergedTimes(busStop) ==
    [k \in 1..Len(getMergedSchedules(busStop)) |-> getMergedSchedules(busStop)[k].schedule]

\* C11 as claimed: in every sorted result, the response for one pair and the
\* merged list of a group, no departure with a malformed time ("xx:yy", a time
\* with the suffix " (+1 day)") stands ahead of one with a well-formed time
C11_AsClaimed ==
    /\ \A key \in DOMAIN schedules :
           HasSchedules(schedules, key) => ~MalformedAhead(schedules[key].schedules)
    /\ \A g \in Groups : ~MalformedAhead(MergedTimes(pinnedStops[g]))

\* the group 347/G6, 359/P18 answered at 20:30: the first pair with tomorrow's
\* 07:20 and 07:50 "(+1 day)", the second with 21:00, and the card lists them so
C11_Witness ==
    \E g \in Groups :
        /\ Card(pinnedStops[g]).kind = "departures"
        /\ Len(Card(pinnedStops[g]).items) = 3
        /\ Card(pinnedStops[g]).items[1].schedule.time
               = <<"0", "7", ":", "2", "0">> \o PLUS_ONE_DAY
        /\ Card(pinnedStops[g]).items[1].stopId = Stop347
        /\ Card(pinnedStops[g]).items[3].schedule.time = <<"2", "1", ":", "0", "0">>
        /\ Card(pinnedStops[g]).items[3].stopId = Stop359

(***************************************************************************)
(* Further properties of the schedules route                               *)
(***************************************************************************)
\* the request c lacks stop or route
LacksParameter(c) == Len(calls[c].stop) = 0 \/ Len(calls[c].route) = 0

\* C12: a request without stop or route is answered at once with status 400
\* and an error body, distinct from every schedule payload; no upstream
\* request is issued for it and the cache is as it was before the request
C12_BadRequestBeforeIO ==
    [][\A c \in Calls :
           (calls[c].pc = "idle" /\ calls'[c].pc # "idle" /\ LacksParameter(c)') =>
               /\ calls'[c].pc = "done"
               /\ calls'[c].status = 400
               /\ calls'[c].body = [error |-> ERROR_MISSING]
               /\ calls'[c].src = "bad"
               /\ calls'[c].requests = 0
               /\ scheduleCache' = scheduleCache
               /\ \A d \in Calls : d # c => calls'[d] = calls[d]]_vars

\* a request without stop and one without route were rejected while the cache
\* held an entry
C12_Witness ==
    /\ DOMAIN scheduleCache # {}
    /\ \E c, d \in Calls :
           /\ Done(c) /\ Len(calls[c].stop) = 0 /\ calls[c].status = 400
           /\ Done(d) /\ Len(calls[d].route) = 0 /\ calls[d].status = 400

(***************************************************************************)
(* Further properties of the page                                          *)
(***************************************************************************)
\* the fetch of pair p of refresh r has run its try or catch and its finally
FetchSettled(r, p) ==
    /\ p \in refreshes[r].settled
    /\ KeyOfPair(refreshes[r].stops, p[1], p[2]) \in DOMAIN schedules
    /\ KeyOfPair(refreshes[r].stops, p[1], p[2]) \in DOMAIN failed

\* C13: a step that ends a refresh-all (refreshing back to false, lastUpdated
\* stamped) is taken by a refresh-all all of whose fetches, for every pair of
\* every group it started with, have settled, by success or by failure
C13_CompleteAfterAllSettled ==
    [][((refreshing /\ ~refreshing') \/ lastUpdated' # lastUpdated) =>
           \E r \in Refreshes :
               /\ refreshes[r].pc = "waiting"
               /\ refreshes'[r].pc = "done"
               /\ lastUpdated' = r
               /\ ~refreshing'
               /\ \A g \in 1..Len(refreshes[r].stops) :
                      \A i \in 1..Len(refreshes[r].stops[g].stops) :
                          FetchSettled(r, <<g, i>>)]_vars

\* the first refresh-all of two groups has ended, with a failed fetch and a
\* successful one among its three
C13_Witness ==
    /\ refreshes[1].pc = "done"
    /\ lastUpdated = 1
    /\ ~refreshing
    /\ Len(refreshes[1].stops) = 2
    /\ Cardinality(refreshes[1].settled) = 3
    /\ \E key \in DOMAIN failed : failed[key]
    /\ \E key \in DOMAIN schedules : HasSchedules(schedules, key)

\* call c fetched from the upstream and the list had no record of its route
\* that had not passed
FetchedNothingUsable(c) ==
    /\ Done(c)
    /\ calls[c].src = "live"
    /\ Eligible(upstream, calls[c].route) = {}

\* C14 as claimed: a call whose upstream request succeeds but yields no usable
\* record for the route is answered with a successful schedule payload that
\* has no schedules and carries an explanatory note
C14_AsClaimed ==
    \A c \in WideCalls :
        FetchedNothingUsable(c) =>
            /\ calls[c].status = 200
            /\ calls[c].body.schedules = <<>>
            /\ calls[c].body.url = StopLink(calls[c].stop)
            /\ calls[c].body.note # NoValue

\* the upstream answered with a list holding no G6 record that had not passed,
\* and the call was answered with status 200, no schedules and no note
C14_Witness ==
    \E c \in WideCalls :
        /\ FetchedNothingUsable(c)
        /\ Len(upstream) > 0
        /\ calls[c].status = 200
        /\ calls[c].body.schedules = <<>>
        /\ calls[c].body.note = NoValue

\* the entry is what one call that fetched from the upstream wrote: its
\* timestamp is the time that call ended and its payload the body of that call
WrittenByOne(key, entry) ==
    \E c \in Calls :
        /\ Done(c)
        /\ calls[c].src = "live"
        /\ calls[c].cacheKey = key
        /\ entry.timestamp = calls[c].ended * 1000
        /\ entry.payload = calls[c].body

\* C15: whatever the interleaving of the calls for one key, every entry of the
\* cache is the whole (timestamp, payload) pair of one successful call, and
\* every response served from the cache is the payload of one such call that
\* ended before the request and less than the TTL before it
C15_EntriesWhole ==
    /\ \A key \in DOMAIN scheduleCache :
           /\ DOMAIN scheduleCache[key] = {"timestamp", "payload"}
           /\ WrittenByOne(key, scheduleCache[key])
    /\ \A c \in Calls :
           (Done(c) /\ calls[c].src = "cache") =>
               \E d \in Calls :
                   /\ Done(d) /\ calls[d].src = "live" /\ SameKey(c, d)
                   /\ calls[d].evEnd < calls[c].evStart
                   /\ (calls[c].started - calls[d].ended) * 1000 < CACHE_TTL_MS
                   /\ calls[c].body = calls[d].body

\* two calls for the key overlapped and wrote different payloads at different
\* times; the entry is the later one's, and a third call was served it
C15_Witness ==
    \E c, d, e \in Calls :
        /\ Done(c) /\ Done(d) /\ Done(e)
        /\ calls[c].src = "live" /\ calls[d].src = "live" /\ calls[e].src = "cache"
        /\ SameKey(c, d) /\ SameKey(d, e)
        /\ calls[d].evStart < calls[c].evEnd
        /\ calls[c].evEnd < calls[d].evEnd
        /\ calls[c].ended < calls[d].ended
        /\ calls[c].body # calls[d].body
        /\ calls[e].body = calls[d].body
        /\ scheduleCache[calls[d].cacheKey].payload = calls[d].body

\* the cache holds an entry for the key that is younger than the TTL and whose
\* url is not one of the old API
ValidEntry(key) ==
    /\ key \in DOMAIN scheduleCache
    /\ clock * 1000 - scheduleCache[key].timestamp < 60000
    /\ ~LegacyShape(scheduleCache[key].payload.url)

\* C16: within one call the rungs are taken in order. A request with a valid
\* entry for its key is answered from the cache and issues no upstream request;
\* one without issues exactly one; the fallback is built only by a call whose
\* upstream request was issued and failed, a live payload only by one whose
\* upstream request was issued and succeeded
C16_LadderInOrder ==
    [][\A c \in Calls :
           /\ (Starts(c) /\ ~LacksParameter(c)') =>
                  IF ValidEntry(CacheKey(calls'[c].stop, calls'[c].route))
                  THEN /\ calls'[c].pc = "done"
                       /\ calls'[c].src = "cache"
                       /\ calls'[c].requests = 0
                  ELSE /\ calls'[c].pc = "awaiting"
                       /\ calls'[c].requests = 1
           /\ (calls[c].pc # "done" /\ calls'[c].pc = "done"
                   /\ calls'[c].src \in {"live", "fallback"}) =>
                  /\ calls[c].pc = "awaiting"
                  /\ calls'[c].requests = 1
                  /\ calls'[c].src = "fallback" <=> calls'[c].status = 500
                  /\ calls'[c].src = "fallback" =>
                         calls'[c].cacheKey \notin DOMAIN scheduleCache']_vars

\* one call was served from the cache without an upstream request, another for
\* the same key fetched and a third fell back after its upstream request failed
C16_Witness ==
    \E c, d, e \in Calls :
        /\ Done(c) /\ calls[c].src = "cache" /\ calls[c].requests = 0
        /\ Done(d) /\ calls[d].src = "live" /\ calls[d].requests = 1
        /\ Done(e) /\ calls[e].src = "fallback" /\ calls[e].requests = 1
        /\ SameKey(c, d)

\* C17: the step in which a call that fetched from the upstream is answered
\* leaves in the cache, under the key of the call, the response of that call
\* stamped with the time of the step, whatever entry was there before
C17_SuccessOverwrites ==
    [][\A c \in Calls :
           (calls[c].pc # "done" /\ calls'[c].pc = "done" /\ calls'[c].src = "live") =>
               /\ calls'[c].cacheKey = CacheKey(calls'[c].stop, calls'[c].route)
               /\ calls'[c].cacheKey \in DOMAIN scheduleCache'
               /\ scheduleCache'[calls'[c].cacheKey] =
                      [timestamp |-> clock' * 1000, payload |-> calls'[c].body]]_vars

\* the entry a call wrote was replaced by the different response of a call for
\* the same key that had started before the entry was written
C17_Witness ==
    \E c, d \in Calls :
        /\ Done(c) /\ Done(d) /\ c # d
        /\ calls[c].src = "live" /\ calls[d].src = "live"
        /\ SameKey(c, d)
        /\ calls[d].evStart < calls[c].evEnd
        /\ calls[c].evEnd < calls[d].evEnd
        /\ calls[c].body # calls[d].body
        /\ scheduleCache[calls[d].cacheKey] =
               [timestamp |-> calls[d].ended * 1000, payload |-> calls[d].body]
        /\ \A e \in Calls : e \notin {c, d} => calls[e].pc = "idle"

\* calls c and d for one key overlapped in time
Overlapped(c, d) ==
    /\ SameKey(c, d)
    /\ calls[c].evStart < calls[d].evEnd
    /\ calls[d].evStart < calls[c].evEnd

\* C18 as claimed: when two calls for one key overlap, one fetching with success
\* and the other failing, then with both answered (and no other call made) the
\* cache holds the entry the successful call wrote
C18_AsClaimed ==
    \A c, d \in Calls :
        (/\ Done(c) /\ Done(d)
         /\ calls[c].src = "live" /\ calls[d].src = "fallback"
         /\ Overlapped(c, d)
         /\ \A e \in Calls : e \notin {c, d} => calls[e].pc = "idle") =>
            /\ calls[c].cacheKey \in DOMAIN scheduleCache
            /\ scheduleCache[calls[c].cacheKey].payload = calls[c].body

\* two overlapping calls for 359/G6: the first fetched three departures and
\* wrote its entry, then the second failed; the cache has no entry for the key
C18_Witness ==
    \E c, d \in Calls :
        /\ Done(c) /\ Done(d)
        /\ calls[c].src = "live" /\ calls[d].src = "fallback"
        /\ Overlapped(c, d)
        /\ calls[c].evEnd < calls[d].evEnd
        /\ Len(calls[c].body.schedules) = 3
        /\ (calls[d].ended - calls[c].ended) * 1000 < CACHE_TTL_MS
        /\ calls[c].cacheKey \notin DOMAIN scheduleCache
        /\ \A e \in Calls : e \notin {c, d} => calls[e].pc = "idle"

(***************************************************************************)
(* Properties of the changes of the pinned groups                          *)
(***************************************************************************)
\* handleStopsChange has just run and brought a pair that the list its timer
\* will fetch does not have
NewPairAwaitsTimer ==
    \E r \in Refreshes :
        /\ refreshes[r].pc = "timer"
        /\ \E key \in KeysOf(pinnedStops) : key \notin KeysOf(refreshes[r].stops)

\* for every pair of the current list a fetch has been started
EveryPairFetched ==
    \A key \in KeysOf(pinnedStops) :
        \E r \in Refreshes :
            /\ refreshes[r].pc \in {"waiting", "done"}
            /\ key \in KeysOf(refreshes[r].stops)

\* nothing is under way: no timer, no fetch, no join
Quiet == \A r \in Refreshes : refreshes[r].pc \in {"idle", "done"}

\* C19 as claimed: after handleStopsChange brought a new pair, a fetch is
\* eventually started for every pair of the list, by the page itself
C19_AsClaimed == [](NewPairAwaitsTimer => <>EveryPairFetched)

\* GroupHome was added to the list, the timer's refresh-all has ended and
\* nothing is under way; no fetch was started for 255/G6 and it has no entry
C19_Witness ==
    /\ Quiet
    /\ pinnedStops = <<GroupCity, GroupHome>>
    /\ refreshes[2].pc = "done"
    /\ refreshes[2].stops = <<GroupCity>>
    /\ lastUpdated = 2
    /\ ~EveryPairFetched
    /\ ScheduleKey(GroupHome.id, Stop255, G6) \notin DOMAIN schedules

\* C20 as claimed: the schedules map holds entries only for pairs of the
\* current list, also after the fetches started before or by a change ended
C20_AsClaimed == DOMAIN schedules \subseteq KeysOf(pinnedStops)

\* GroupHome was removed, every fetch has ended and nothing is under way; the
\* map holds an entry for the pair 255/G6 of the removed group
C20_Witness ==
    /\ Quiet
    /\ pinnedStops = <<GroupCity>>
    /\ \E r \in Refreshes : refreshes[r].pc = "done" /\ HasGroup(refreshes[r].stops, GroupHome.id)
    /\ ScheduleKey(GroupHome.id, Stop255, G6) \in DOMAIN schedules
    /\ HasSchedules(schedules, ScheduleKey(GroupHome.id, Stop255, G6))

(***************************************************************************)
(* Properties of the refreshing flag                                       *)
(***************************************************************************)
\* a refresh-all that has started its fetches and still awaits one of them
Unsettled(r) ==
    /\ refreshes[r].pc = "waiting"
    /\ refreshes[r].settled # PairsOf(refreshes[r].stops)

\* C21 as claimed: refreshing is true in every state in which some
\* refresh-all still has an unsettled fetch, also when refresh-alls overlap
C21_AsClaimed == (\E r \in Refreshes : Unsettled(r)) => refreshing

\* 'Try again' on the failed card of GroupHome started a second refresh-all
\* while the first still awaited a fetch of GroupCity (that fetch has since
\* cleared the loading mark the second one had set); the first has ended and
\* set refreshing to false, the second still awaits every one of its fetches
C21_Witness ==
    /\ refreshes[1].pc = "done"
    /\ refreshes[2].pc = "waiting"
    /\ refreshes[2].stops = <<GroupHome, GroupCity>>
    /\ refreshes[2].settled = {}
    /\ \E key \in KeysOf(refreshes[2].stops) : key \in DOMAIN loading /\ ~loading[key]
    /\ lastUpdated = 1
    /\ ~refreshing

(***************************************************************************)
(* The schedules route asked for different dates                           *)
(***************************************************************************)
\* the datum query parameter: absent ("", falsy) or an ISO date
DatumParams == Datums \cup {""}

\* searchParams.get('datum') || new Date().toISOString().split('T')[0]
DatumOf(param) == IF param = "" THEN Today ELSE param

\* requests for one key with and without a datum parameter
NextDates ==
    \/ \E c \in Calls, p \in DatumParams :
           GetStart(c, Stop359, G6, DatumOf(p)) /\ UNCHANGED <<pageVars, timeVars, storeVars>>
    \/ \E c \in Calls : GetFetchOk(c) /\ UNCHANGED <<pageVars, timeVars, storeVars>>
    \/ \E c \in Calls : GetFetchFail(c) /\ UNCHANGED <<pageVars, timeVars, storeVars>>
    \/ \E d \in TickSteps : Tick(d) /\ UNCHANGED <<pageVars, timeVars, storeVars>>

SpecDates == Init /\ [][NextDates]_vars

\* C22 as claimed: the date field of every schedule response is the date the
\* call asked for (its datum parameter, or today), also when the response is
\* served from the cache
C22_AsClaimed ==
    \A c \in Calls : Resolved(c) => calls[c].body.date = calls[c].datum

\* a call that asked for 2025-01-16 was answered from the cache with the
\* payload computed for an earlier call, which asked for 2025-01-15
C22_Witness ==
    \E c, d \in Calls :
        /\ Resolved(c) /\ Resolved(d)
        /\ calls[d].src = "live" /\ calls[d].datum = Today
        /\ calls[c].src = "cache" /\ calls[c].datum = "2025-01-16"
        /\ calls[d].evEnd < calls[c].evStart
        /\ calls[c].body = calls[d].body
        /\ calls[c].body.date = Today

(***************************************************************************)
(* The schedules route asked for stops and routes that contain '-'         *)
(***************************************************************************)
\* two (stop, route) pairs with one cache key, "a-b-c", and a third pair
DashRequests ==
    { [stop |-> StopAB, route |-> RouteC],
      [stop |-> StopA, route |-> RouteBC],
      [stop |-> StopA, route |-> RouteC] }

\* departures of the routes "c" and "b-c"
FeedDash ==
    << Arrival(RouteC, "Center", FALSE, FALSE, Hms(8, 20, 0), Hms(8, 20, 0)),
       Arrival(RouteBC, "Tabor", FALSE, FALSE, Hms(8, 15, 0), Hms(8, 15, 0)),
       Arrival(RouteC, "Melje", TRUE, FALSE, Hms(8, 30, 0), Hms(8, 12, 0)) >>

InitDash == InitRoute({FeedDash, FeedPast}) /\ InitNoPage /\ InitNoTime /\ InitNoStore

NextDash ==
    \/ \E c \in Calls, r \in DashRequests :
           GetStart(c, r.stop, r.route, Today) /\ UNCHANGED <<pageVars, timeVars, storeVars>>
    \/ \E c \in Calls : GetFetchOk(c) /\ UNCHANGED <<pageVars, timeVars, storeVars>>
    \/ \E c \in Calls : GetFetchFail(c) /\ UNCHANGED <<pageVars, timeVars, storeVars>>
    \/ \E d \in TickSteps : Tick(d) /\ UNCHANGED <<pageVars, timeVars, storeVars>>

SpecDash == InitDash /\ [][NextDash]_vars

\* C23 as claimed: a payload from the cache is served only to a request whose
\* stop and route both equal the stop and route of the payload, whatever
\* characters the two strings contain
C23_AsClaimed ==
    \A c \in Calls :
        (Resolved(c) /\ calls[c].src = "cache") =>
            /\ calls[c].body.stop = calls[c].stop
            /\ calls[c].body.route = calls[c].route

\* the request for stop "a", route "b-c" was answered from the cache with the
\* departures of route "c" at stop "a-b", computed for an earlier call
C23_Witness ==
    \E c, d \in Calls :
        /\ Resolved(c) /\ Resolved(d)
        /\ calls[d].src = "live" /\ calls[d].stop = StopAB /\ calls[d].route = RouteC
        /\ calls[c].src = "cache" /\ calls[c].stop = StopA /\ calls[c].route = RouteBC
        /\ calls[d].evEnd < calls[c].evStart
        /\ calls[c].body = calls[d].body
        /\ calls[c].body.stop = StopAB
        /\ Len(calls[c].body.schedules) = 2
        /\ calls[c].body.schedules[1].destination = "Melje"
        /\ calls[c].body.schedules[2].destination = "Center"

(***************************************************************************)
(* Properties of the cache across keys                                     *)
(***************************************************************************)
\* call c takes a step: it receives its request or it is answered
Steps(c) == calls'[c] # calls[c]

\* the entry of key k is the same before and after the step, or absent in both
EntryUnchanged(k) ==
    /\ (k \in DOMAIN scheduleCache) <=> (k \in DOMAIN scheduleCache')
    /\ (k \in DOMAIN scheduleCache) => scheduleCache'[k] = scheduleCache[k]

\* C24: a step of a call changes no cache entry but the one of the call's own
\* key, and a response from the cache is the payload under the call's own key
C24_OtherKeysUntouched ==
    [][\A c \in Calls :
           Steps(c) =>
               LET own == calls'[c].stop \o <<"-">> \o calls'[c].route
               IN  /\ \A k \in (DOMAIN scheduleCache \cup DOMAIN scheduleCache') :
                          k # own => EntryUnchanged(k)
                   /\ (calls'[c].pc = "done" /\ calls'[c].src = "cache") =>
                          /\ own \in DOMAIN scheduleCache
                          /\ calls'[c].body = scheduleCache[own].payload]_vars

\* 359/G6 and 359/P18 were both answered live and both entries are in the
\* cache; then a call for 359/G6 failed, which removed the entry of 359/G6 only
C24_Witness ==
    \E c, d, e \in Calls :
        /\ Done(c) /\ Done(d) /\ Done(e)
        /\ calls[c].src = "live" /\ calls[c].route = G6
        /\ calls[d].src = "live" /\ calls[d].route = P18
        /\ calls[e].src = "fallback" /\ calls[e].route = G6
        /\ calls[c].evEnd < calls[e].evEnd
        /\ calls[d].evEnd < calls[e].evEnd
        /\ DOMAIN scheduleCache = {calls[d].cacheKey}
        /\ scheduleCache[calls[d].cacheKey].payload = calls[d].body

(***************************************************************************)
(* Further properties of the normaliser                                    *)
(***************************************************************************)
\* call c was answered with a payload computed from the upstream's list
Fresh(c) == Done(c) /\ calls[c].src = "live"

\* the eligible records whose effective time is later than the minute in
\* which call c was answered
FutureEligible(c) ==
    {i \in Eligible(upstream, calls[c].route) :
        Effective(upstream[i]) \div 60 > MinuteOfDay(calls[c].ended)}

\* the schedules of call c are the records i1, i2, i3, in this order
ShowsRecords(c, i1, i2, i3) ==
    LET sch == calls[c].body.schedules
        shown == <<i1, i2, i3>>
    IN  /\ Len(sch) = 3
        /\ \A k \in 1..3 :
               /\ WellFormedTime(sch[k].time)
               /\ HhMm(sch[k].time) = Effective(upstream[shown[k]]) \div 60

\* C25 as claimed: with at least 3 eligible records later than the current
\* minute, a freshly computed response holds exactly the 3 earliest of them
C25_AsClaimed ==
    \A c \in WideCalls :
        (Fresh(c) /\ Cardinality(FutureEligible(c)) >= 3) =>
            \E i1, i2, i3 \in FutureEligible(c) :
                /\ Cardinality({i1, i2, i3}) = 3
                /\ Effective(upstream[i1]) <= Effective(upstream[i2])
                /\ Effective(upstream[i2]) <= Effective(upstream[i3])
                /\ \A j \in FutureEligible(c) \ {i1, i2, i3} :
                       Effective(upstream[i3]) <= Effective(upstream[j])
                /\ ShowsRecords(c, i1, i2, i3)

\* the upstream list holds 3 eligible records later than the current minute
\* and an eligible one that is over but not flagged as passed; the response
\* holds 2 schedules and no note
C25_Witness ==
    \E c \in WideCalls :
        /\ Fresh(c)
        /\ Cardinality(FutureEligible(c)) = 3
        /\ Cardinality(Eligible(upstream, calls[c].route)) = 4
        /\ Len(calls[c].body.schedules) = 2
        /\ \A k \in 1..2 : HhMm(calls[c].body.schedules[k].time) > MinuteOfDay(calls[c].ended)
        /\ calls[c].body.note = NoValue

\* schedule s is what the handler makes of the upstream record a
MadeFrom(s, a) ==
    /\ WellFormedTime(s.time)
    /\ HhMm(s.time) = Effective(a) \div 60
    /\ s.destination = (IF a.trip_headsign = "" THEN NoValue ELSE a.trip_headsign)

\* C26: every schedule of a freshly computed response is made from an upstream
\* record of its own that is not flagged as passed and has exactly the
\* requested route; no other record appears in the response
C26_OnlyEligibleRecords ==
    \A c \in WideCalls :
        Fresh(c) =>
            LET sch == calls[c].body.schedules
            IN  \E f \in [1..Len(sch) -> Eligible(upstream, calls[c].route)] :
                    /\ \A k, l \in 1..Len(sch) : k # l => f[k] # f[l]
                    /\ \A k \in 1..Len(sch) : MadeFrom(sch[k], upstream[f[k]])

\* the upstream list held a passed G6 record and a P18 record next to two
\* G6 records that had not passed; the response holds the two
C26_Witness ==
    \E c \in WideCalls :
        /\ Fresh(c)
        /\ calls[c].route = G6
        /\ \E i \in 1..Len(upstream) :
               upstream[i].route_short_name = G6 /\ upstream[i].passed
        /\ \E i \in 1..Len(upstream) : upstream[i].route_short_name = P18
        /\ Cardinality(Eligible(upstream, G6)) = 2
        /\ Len(calls[c].body.schedules) = 2

(***************************************************************************)
(* The schedules route fed with records of equal effective time            *)
(***************************************************************************)
\* three G6 records with the effective time 08:20:00, one of them by its
\* realtime value, and one of 08:25:00 whose unused realtime value is earlier
TiePool ==
    { Arrival(G6, "Center", FALSE, FALSE, Hms(8, 20, 0), Hms(8, 0, 0)),
      Arrival(G6, "Melje", TRUE, FALSE, Hms(8, 30, 0), Hms(8, 20, 0)),
      Arrival(G6, "Tabor", FALSE, FALSE, Hms(8, 20, 0), Hms(8, 40, 0)),
      Arrival(G6, "", FALSE, FALSE, Hms(8, 25, 0), Hms(8, 10, 0)) }

TieLen == 3

\* every arrival list of TieLen records of the pool
TieFeeds == [1..TieLen -> TiePool]

InitTies == InitRoute(TieFeeds) /\ InitNoPage /\ InitNoTime /\ InitNoStore

NextTies ==
    \/ \E c \in WideCalls : GetStart(c, Stop359, G6, Today) /\ UNCHANGED <<pageVars, timeVars, storeVars>>
    \/ \E c \in WideCalls : GetFetchOk(c) /\ UNCHANGED <<pageVars, timeVars, storeVars>>
    \/ \E c \in WideCalls : GetFetchFail(c) /\ UNCHANGED <<pageVars, timeVars, storeVars>>
    \/ \E d \in TickSteps : Tick(d) /\ UNCHANGED <<pageVars, timeVars, storeVars>>

SpecTies == InitTies /\ [][NextTies]_vars

\* C27: the schedules of a freshly computed response show, for each record
\* kept, its realtime time if the record is flagged realtime and its scheduled
\* time otherwise; they are in ascending order of that time, and records of
\* equal time are in the order of the upstream list
C27_EffectiveTimeStable ==
    \A c \in WideCalls :
        Fresh(c) =>
            LET sch == calls[c].body.schedules
            IN  \E f \in [1..Len(sch) -> Eligible(upstream, calls[c].route)] :
                    /\ \A k \in 1..Len(sch) : MadeFrom(sch[k], upstream[f[k]])
                    /\ \A k, l \in 1..Len(sch) :
                           k < l =>
                               \/ Effective(upstream[f[k]]) < Effective(upstream[f[l]])
                               \/ /\ Effective(upstream[f[k]]) = Effective(upstream[f[l]])
                                  /\ f[k] < f[l]

\* the upstream served "Tabor" (scheduled 08:20), "Melje" (realtime 08:20,
\* scheduled 08:30) and "Center" (scheduled 08:20, realtime value 08:00) in
\* this order; the response shows 08:20 three times, in the same order
C27_Witness ==
    \E c \in WideCalls :
        /\ Fresh(c)
        /\ Len(upstream) = 3
        /\ upstream[1].trip_headsign = "Tabor"
        /\ upstream[2].trip_headsign = "Melje" /\ upstream[2].realtime
        /\ upstream[3].trip_headsign = "Center"
        /\ Len(calls[c].body.schedules) = 3
        /\ \A k \in 1..3 :
               /\ calls[c].body.schedules[k].time = <<"0", "8", ":", "2", "0">>
               /\ calls[c].body.schedules[k].destination = upstream[k].trip_headsign

(***************************************************************************)
(* The two timeToMinutes functions applied to strings                      *)
(***************************************************************************)
\* length of the generated strings
MaxTimeLen == 3

TimeAlphabet == {"0", "7", ":", "h", " "}

\* every string of at most MaxTimeLen characters of the alphabet
ShortTexts == UNION {[1..n -> TimeAlphabet] : n \in 0..MaxTimeLen}

\* zero-padded "HH:MM" strings
ClockTexts ==
    {h \o <<":">> \o m : h \in {<<"0", "0">>, <<"0", "7">>, <<"2", "3">>},
                         m \in {<<"0", "0">>, <<"3", "0">>, <<"5", "9">>}}

\* "0730", "07:30 (+1 day)", "07:30:45", "7:05", "ab:cd", "07:3"
OddTexts ==
    { <<"0", "7", "3", "0">>,
      <<"0", "7", ":", "3", "0", " ", "(", "+", "1", " ", "d", "a", "y", ")">>,
      <<"0", "7", ":", "3", "0", ":", "4", "5">>,
      <<"7", ":", "0", "5">>,
      <<"a", "b", ":", "c", "d">>,
      <<"0", "7", ":", "3">> }

TimeTexts == ShortTexts \cup ClockTexts \cup OddTexts

InitTime ==
    /\ InitRoute({FeedBusy})
    /\ InitNoPage
    /\ InitNoStore
    /\ timeSeconds = 0
    /\ timeText \in TimeTexts
    /\ timeMinutes = [route |-> NotApplied, page |-> NotApplied]

\* the route calls its timeToMinutes on the string
RouteTimeToMinutes ==
    /\ timeMinutes.route = NotApplied
    /\ timeMinutes' = [timeMinutes EXCEPT !.route = timeToMinutes(timeText)]
    /\ UNCHANGED <<timeSeconds, timeText>>

\* getMergedSchedules calls its timeToMinutes on the string
PageTimeToMinutes ==
    /\ timeMinutes.page = NotApplied
    /\ timeMinutes' = [timeMinutes EXCEPT !.page = pageTimeToMinutes(timeText)]
    /\ UNCHANGED <<timeSeconds, timeText>>

NextTime ==
    \/ RouteTimeToMinutes /\ UNCHANGED <<routeVars, pageVars, storeVars>>
    \/ PageTimeToMinutes /\ UNCHANGED <<routeVars, pageVars, storeVars>>

SpecTime == InitTime /\ [][NextTime]_vars

(***************************************************************************)
(* Properties of timeToMinutes                                             *)
(***************************************************************************)
\* the part has a character that is neither a digit nor white space
NonNumeric(part) == \E i \in 1..Len(part) : ~IsDigit(part[i]) /\ ~IsSpace(part[i])

\* the string has no ':', or nothing behind its first ':', or a part before
\* or behind the first ':' that is not numeric (trailing text included)
Malformed(time) ==
    LET parts == Split(time, ":")
    IN  \/ Len(parts) < 2
        \/ Len(parts[2]) = 0
        \/ NonNumeric(parts[1])
        \/ NonNumeric(parts[2])

\* C28 as claimed: each of the two timeToMinutes functions returns positive
\* infinity for every malformed string and hours * 60 + minutes for every
\* well-formed "HH:MM"
C28_AsClaimed ==
    \A fn \in {"route", "page"} :
        timeMinutes[fn] # NotApplied =>
            /\ WellFormedTime(timeText) => timeMinutes[fn] = Num(HhMm(timeText))
            /\ Malformed(timeText) => timeMinutes[fn] = Infinity

\* "0730", which has no ':', was handed to both functions: each returned NaN
C28_Witness ==
    /\ timeText = <<"0", "7", "3", "0">>
    /\ Malformed(timeText)
    /\ timeMinutes.route = NaN
    /\ timeMinutes.page = NaN

(***************************************************************************)
(* The GET handler of the scraping route                                   *)
(***************************************************************************)
SCRAPE_TIMEOUT_MS == 5 * 1000

\* a stop without a mock table
Stop9 == <<"9">>

ScrapeRequests ==
    { [stop |-> Stop255, route |-> G6],
      [stop |-> Stop359, route |-> G6],
      [stop |-> Stop347, route |-> G6],
      [stop |-> Stop9, route |-> G6],
      [stop |-> Stop359, route |-> <<>>] }

Scraped(time, destination) == [time |-> time, destination |-> destination]

\* what the selectors and the regular expression find in the operator's page:
\* departures all day with one time twice, or departures that are over at 08:09
ScrapedDay ==
    << Scraped(MockTime(8 * 60 + 40), "Center"),
       Scraped(MockTime(8 * 60 + 10), NoValue),
       Scraped(MockTime(8 * 60 + 40), "Center"),
       Scraped(MockTime(21 * 60 + 10), "Melje") >>

ScrapedMorning ==
    << Scraped(MockTime(8 * 60 + 5), NoValue),
       Scraped(MockTime(7 * 60 + 55), "Center"),
       Scraped(MockTime(8 * 60 + 2), NoValue) >>

ScrapeFeeds == {<<>>, ScrapedDay, ScrapedMorning}

\* the wall clock at the start: in the morning, and after the last departures
ScrapeClocks == {Hms(8, 9, 30), Hms(20, 29, 30)}

\* `${hours padded}:${minutes padded}` of the local wall clock
ScrapeCurrentTime == MockTime(getCurrentTimeMinutes)

\* GET up to its await: the parameters are checked, the request goes out
ScrapeGetStart(c, stop, route, datum) ==
    /\ calls[c].pc = "idle"
    /\ \A d \in Calls : d < c => calls[d].pc # "idle"
    /\ LET begun == [calls[c] EXCEPT !.stop = stop, !.route = route, !.datum = datum,
                                     !.started = clock, !.evStart = Events + 1]
       IN  IF Len(stop) = 0 \/ Len(route) = 0
           THEN calls' = [calls EXCEPT ![c] =
                             Return(begun, "bad", 400, [error |-> ERROR_MISSING])]
           ELSE calls' = [calls EXCEPT ![c] =
                             [begun EXCEPT !.pc = "awaiting", !.requests = 1]]
    /\ UNCHANGED <<clock, upstream, scheduleCache, debugActiveForRequest>>

\* axios.get resolves and the page is scraped: the times found, or the mock
\* table if none was found, are filtered, sorted and cut
ScrapeFetchOk(c) ==
    /\ calls[c].pc = "awaiting"
    /\ LET call == calls[c]
       IN  calls' = [calls EXCEPT ![c] =
                        Return(call, "live", 200,
                               ScrapeResult(call.stop, call.route, call.datum, upstream,
                                            ScrapeCurrentTime))]
    /\ UNCHANGED <<clock, upstream, scheduleCache, debugActiveForRequest>>

\* axios.get rejects: the inner catch logs, schedules stays empty
ScrapeFetchFail(c) ==
    /\ calls[c].pc = "awaiting"
    /\ LET call == calls[c]
       IN  calls' = [calls EXCEPT ![c] =
                        Return(call, "fallback", 200,
                               ScrapeResult(call.stop, call.route, call.datum, <<>>,
                                            ScrapeCurrentTime))]
    /\ UNCHANGED <<clock, upstream, scheduleCache, debugActiveForRequest>>

\* time passes; a pending request ends within the axios timeout
ScrapeTick(d) ==
    /\ \E s \in ScrapeClocks : s <= clock /\ clock + d <= s + MaxElapsed
    /\ \A c \in Calls :
           calls[c].pc = "awaiting" =>
               (clock + d - calls[c].started) * 1000 <= SCRAPE_TIMEOUT_MS
    /\ clock' = clock + d
    /\ UNCHANGED <<upstream, scheduleCache, debugActiveForRequest, calls>>

InitScrape ==
    /\ clock \in ScrapeClocks
    /\ upstream \in ScrapeFeeds
    /\ scheduleCache = <<>>
    /\ debugActiveForRequest = FALSE
    /\ calls = [c \in Calls |-> IdleCall]
    /\ InitNoPage
    /\ InitNoTime /\ InitNoStore

NextScrape ==
    \/ \E c \in WideCalls, r \in ScrapeRequests :
           ScrapeGetStart(c, r.stop, r.route, Today) /\ UNCHANGED <<pageVars, timeVars, storeVars>>
    \/ \E c \in WideCalls : ScrapeFetchOk(c) /\ UNCHANGED <<pageVars, timeVars, storeVars>>
    \/ \E c \in WideCalls : ScrapeFetchFail(c) /\ UNCHANGED <<pageVars, timeVars, storeVars>>
    \/ \E d \in TickSteps : ScrapeTick(d) /\ UNCHANGED <<pageVars, timeVars, storeVars>>

SpecScrape == InitScrape /\ [][NextScrape]_vars

(***************************************************************************)
(* Properties of the scraping route                                        *)
(***************************************************************************)
\* call c was answered with a schedule payload
Answered(c) == Done(c) /\ calls[c].status = 200

\* the live source gave call c no usable record
NothingScraped(c) == calls[c].src = "fallback" \/ Len(upstream) = 0

\* the times of the records call c had to choose from: the scraped ones, or
\* the ones of the mock table of the stop when nothing was scraped
TimesOnHand(c) ==
    IF ~NothingScraped(c) THEN {upstream[i].time : i \in 1..Len(upstream)}
    ELSE IF calls[c].stop \in DOMAIN MOCK_SCHEDULES
         THEN {MOCK_SCHEDULES[calls[c].stop][i] :
                   i \in 1..Len(MOCK_SCHEDULES[calls[c].stop])}
         ELSE {}

\* the time is "HH:MM" followed by the marker of the next day
TaggedNextDay(time) ==
    /\ Len(time) = 5 + Len(PLUS_ONE_DAY)
    /\ WellFormedTime(SubSeq(time, 1, 5))
    /\ SubSeq(time, 6, Len(time)) = PLUS_ONE_DAY

\* none of the records on hand is later than the minute call c was answered in
NoneRemainsToday(c) ==
    /\ Answered(c)
    /\ TimesOnHand(c) # {}
    /\ \A t \in TimesOnHand(c) : HhMm(t) <= MinuteOfDay(calls[c].ended)

\* C29 as claimed: when no departure remains for the current day, the response
\* holds the 3 earliest records overall (all of them if there are fewer), each
\* with the marker of the next day, and the note about tomorrow's departures
C29_AsClaimed ==
    \A c \in WideCalls :
        NoneRemainsToday(c) =>
            LET sch == calls[c].body.schedules
                n == Cardinality(TimesOnHand(c))
            IN  /\ Len(sch) = (IF n < 3 THEN n ELSE 3)
                /\ \A k \in 1..Len(sch) :
                       /\ TaggedNextDay(sch[k].time)
                       /\ SubSeq(sch[k].time, 1, 5) \in TimesOnHand(c)
                       /\ Cardinality({t \in TimesOnHand(c) :
                                          HhMm(t) < HhMm(SubSeq(sch[k].time, 1, 5))}) = k - 1
                /\ calls[c].body.note = NOTE_TOMORROW

\* stop 347 was asked for after its last departure of 20:20 and the page of
\* the operator could not be fetched: the response holds 2 of the 27 mock
\* times, "07:20 (+1 day)" and "07:50 (+1 day)", and the note
C29_Witness ==
    \E c \in WideCalls :
        /\ NoneRemainsToday(c)
        /\ calls[c].src = "fallback"
        /\ calls[c].stop = Stop347
        /\ Cardinality(TimesOnHand(c)) = 27
        /\ Len(calls[c].body.schedules) = 2
        /\ calls[c].body.schedules[1].time = MockTime(7 * 60 + 20) \o PLUS_ONE_DAY
        /\ calls[c].body.schedules[2].time = MockTime(7 * 60 + 50) \o PLUS_ONE_DAY
        /\ calls[c].body.note = NOTE_TOMORROW

\* the response of call c was built from the mock table of its stop
BuiltFromSample(c) ==
    /\ Answered(c)
    /\ NothingScraped(c)
    /\ calls[c].stop \in DOMAIN MOCK_SCHEDULES

\* sample data is used only when the live source gave nothing usable: the
\* schedules of any other response are all times that were scraped
SampleOnlyIfNothingScraped(c) ==
    (Answered(c) /\ ~NothingScraped(c)) =>
        \A k \in 1..Len(calls[c].body.schedules) :
            SubSeq(calls[c].body.schedules[k].time, 1, 5) \in
                {upstream[i].time : i \in 1..Len(upstream)}

\* the sample times shown are later than the current minute, or the response
\* is marked as showing the next day
SampleFilteredLikeLive(c) ==
    BuiltFromSample(c) =>
        \/ /\ calls[c].body.note = NOTE_TOMORROW
           /\ \A k \in 1..Len(calls[c].body.schedules) :
                  TaggedNextDay(calls[c].body.schedules[k].time)
        \/ \A k \in 1..Len(calls[c].body.schedules) :
               /\ WellFormedTime(calls[c].body.schedules[k].time)
               /\ HhMm(calls[c].body.schedules[k].time) > MinuteOfDay(calls[c].ended)

\* C30 as claimed: sample data is used only when the live source gave no
\* usable record, the sample times pass the future filter unless the response
\* is a rollover to the next day, and a response built from sample data
\* carries a note
C30_AsClaimed ==
    \A c \in WideCalls :
        /\ SampleOnlyIfNothingScraped(c)
        /\ SampleFilteredLikeLive(c)
        /\ BuiltFromSample(c) => calls[c].body.note # NoValue

\* stop 359 was asked for at 08:09 and the page of the operator could not be
\* fetched: the response holds the mock times 08:30 and 09:00 and no note
C30_Witness ==
    \E c \in WideCalls :
        /\ BuiltFromSample(c)
        /\ calls[c].src = "fallback"
        /\ calls[c].stop = Stop359
        /\ MinuteOfDay(calls[c].ended) = 8 * 60 + 9
        /\ Len(calls[c].body.schedules) = 2
        /\ calls[c].body.schedules[1].time = MockTime(8 * 60 + 30)
        /\ calls[c].body.schedules[2].time = MockTime(9 * 60)
        /\ calls[c].body.note = NoValue

(***************************************************************************)
(* Properties of the upstream requests of a call                           *)
(***************************************************************************)
\* C31: a call sends at most one request to the upstream, whatever its
\* outcome: one if it is answered live or with the fallback, none if it is
\* answered with 400 or from the cache
C31_AtMostOneRequest ==
    \A c \in Calls :
        /\ calls[c].requests <= 1
        /\ calls[c].pc = "awaiting" => calls[c].requests = 1
        /\ Done(c) =>
               calls[c].requests = (IF calls[c].src \in {"live", "fallback"} THEN 1 ELSE 0)

\* a call whose upstream request failed was answered with the fallback after
\* that one request, and a later call was answered from no request at all
C31_Witness ==
    \E c, d \in Calls :
        /\ Done(c) /\ calls[c].src = "fallback" /\ calls[c].requests = 1
        /\ Done(d) /\ calls[d].src = "bad" /\ calls[d].requests = 0

(***************************************************************************)
(* The schedules route with upstream requests that end                     *)
(***************************************************************************)
\* a pending upstream request ends: axios resolves, or rejects at the latest
\* when its timeout of 10 s is over; fairness is stated for the rejection,
\* which is enabled exactly as long as the request is pending
Completes == \E c \in Calls : GetFetchFail(c) /\ UNCHANGED <<pageVars, timeVars, storeVars>>

SpecParamsFair ==
    /\ Init
    /\ [][NextParams]_vars
    /\ WF_vars(Completes)

(***************************************************************************)
(* Properties of the termination of a call                                 *)
(***************************************************************************)
\* C32: a call that has received its request is either answered at once or
\* awaits its own upstream request and nothing else (the end of that request
\* can answer it whatever the other calls do), and once the request has
\* completed or timed out the call is answered
C32_EveryCallAnswered ==
    /\ [](\A c \in Calls : calls[c].pc \in {"idle", "awaiting", "done"})
    /\ [](\A c \in Calls : calls[c].pc = "awaiting" => ENABLED GetFetchFail(c))
    /\ \A c \in Calls : (calls[c].pc = "awaiting") ~> Done(c)

\* three calls were answered, the second while the first awaited its
\* upstream request and the third after the request of the first had failed
C32_Witness ==
    /\ \A c \in Calls : Done(c)
    /\ calls[1].src = "fallback"
    /\ calls[2].src = "bad"
    /\ calls[2].evEnd < calls[1].evEnd
    /\ calls[3].src = "live"

(***************************************************************************)
(* secondsToTime applied to the seconds of a day, and back                 *)
(***************************************************************************)
SecondsPerDay == 24 * 3600

InitSeconds ==
    /\ InitRoute({FeedBusy})
    /\ InitNoPage
    /\ InitNoStore
    /\ timeSeconds \in 0..(SecondsPerDay - 1)
    /\ timeText = <<>>
    /\ timeMinutes = [route |-> NotApplied, page |-> NotApplied]

\* the route calls secondsToTime on the arrival time of a record
ApplySecondsToTime ==
    /\ timeText = <<>>
    /\ timeText' = secondsToTime(timeSeconds)
    /\ UNCHANGED <<timeSeconds, timeMinutes>>

\* the future filter calls timeToMinutes on the time of the schedule
ApplyTimeToMinutes == timeText # <<>> /\ RouteTimeToMinutes

NextSeconds ==
    \/ ApplySecondsToTime /\ UNCHANGED <<routeVars, pageVars, storeVars>>
    \/ ApplyTimeToMinutes /\ UNCHANGED <<routeVars, pageVars, storeVars>>

SpecSeconds == InitSeconds /\ [][NextSeconds]_vars

(***************************************************************************)
(* Properties of secondsToTime                                             *)
(***************************************************************************)
\* C33: secondsToTime(s) is the zero-padded "HH:MM" of floor(s / 3600) and
\* floor((s mod 3600) / 60), and timeToMinutes of it is floor(s / 60), for
\* every s of a day
C33_RoundTripFloors ==
    /\ timeText # <<>> =>
           /\ WellFormedTime(timeText)
           /\ DigitVal(timeText[1]) * 10 + DigitVal(timeText[2]) = timeSeconds \div 3600
           /\ DigitVal(timeText[4]) * 10 + DigitVal(timeText[5])
                  = (timeSeconds % 3600) \div 60
    /\ timeMinutes.route # NotApplied => timeMinutes.route = Num(timeSeconds \div 60)

\* 08:11:59 became "08:11", not "08:12", and that became 491
C33_Witness ==
    /\ timeSeconds = Hms(8, 11, 59)
    /\ timeText = <<"0", "8", ":", "1", "1">>
    /\ timeMinutes.route = Num(8 * 60 + 11)

(***************************************************************************)
(* The debug flag under overlapping calls                                  *)
(***************************************************************************)
\* a call waits for the upstream's answer
Running(c) == calls[c].pc = "awaiting"

\* a call asks for the stop and route whose requests are logged
IsDebugTarget(c) ==
    /\ calls[c].stop = <<"3", "5", "9">>
    /\ calls[c].route = <<"G", "6">>

\* C36: every call restores debugActiveForRequest: when no call is running
\* the flag is false, as at the start, and while a call that does not ask for
\* stop 359, route G6 is the only one running the flag is false
C36_AsClaimed ==
    /\ (\A c \in Calls : ~Running(c)) => debugActiveForRequest = FALSE
    /\ \A c \in Calls :
           (/\ Running(c)
            /\ ~IsDebugTarget(c)
            /\ \A d \in Calls \ {c} : ~Running(d))
               => debugActiveForRequest = FALSE

\* a call for 359/G6 and a call for another route overlapped, the one for
\* 359/G6 was answered first, both are answered and the flag is set
C36_Witness ==
    \E c, d \in Calls :
        /\ Done(c) /\ IsDebugTarget(c)
        /\ Done(d) /\ ~IsDebugTarget(d) /\ calls[d].src # "bad"
        /\ calls[c].evStart < calls[d].evStart
        /\ calls[d].evStart < calls[c].evEnd
        /\ calls[c].evEnd < calls[d].evEnd
        /\ \A e \in Calls : ~Running(e)
        /\ debugActiveForRequest = TRUE

(***************************************************************************)
(* The storage module: the pinned groups in localStorage                   *)
(***************************************************************************)
\* a record has a field (a field that is undefined is not written by
\* JSON.stringify, so in the item it is a field the record does not have)
HasField(record, field) == field \in DOMAIN record

\* the id the fallback of migrateBusStop makes up: `stop-${Date.now()}`
GeneratedId(now) == <<"s", "t", "o", "p", "-">> \o NumToStr(now)

\* migrateBusStop, with the arms of the mutants below in its places
migrateBusStopIgnoringStops(stop, now) ==
    IF /\ HasField(stop, "stopId") /\ HasField(stop, "route")
       /\ Len(stop.stopId) > 0 /\ Len(stop.route) > 0
    THEN [id |-> stop.id, name |-> stop.name,
          stops |-> <<[stopId |-> stop.stopId, route |-> stop.route]>>]
    ELSE [id |-> IF HasField(stop, "id") /\ Len(stop.id) > 0
                 THEN stop.id ELSE GeneratedId(now),
          name |-> IF HasField(stop, "name") /\ stop.name # ""
                   THEN stop.name ELSE "Unknown",
          stops |-> <<>>]

\* a stored record in the form of the current version: a record with a
\* non-empty stops array is returned as it is, a record with stopId and
\* route becomes a group of that one pair, anything else a group of no pair
migrateBusStop(stop, now) ==
    IF HasField(stop, "stops") /\ Len(stop.stops) > 0
    THEN stop
    ELSE IF /\ HasField(stop, "stopId") /\ HasField(stop, "route")
            /\ Len(stop.stopId) > 0 /\ Len(stop.route) > 0
    THEN LET group == [id |-> stop.id, name |-> stop.name,
                       stops |-> <<[stopId |-> stop.stopId, route |-> stop.route]>>]
         IN  IF HasField(stop, "description")
             THEN group @@ [description |-> stop.description]
             ELSE group
    ELSE [id |-> IF HasField(stop, "id") /\ Len(stop.id) > 0
                 THEN stop.id ELSE GeneratedId(now),
          name |-> IF HasField(stop, "name") /\ stop.name # ""
                   THEN stop.name ELSE "Unknown",
          stops |-> <<>>]

\* loadPinnedStops: no list when the item is not set, else the stored
\* records, each migrated
loadPinnedStops(item, now) ==
    IF item.by = "nobody"
    THEN <<>>
    ELSE [i \in 1..Len(item.stops) |-> migrateBusStop(item.stops[i], now)]

\* JSON.stringify of a group: a description that is undefined is left out
Stringified(group) ==
    IF HasField(group, "description") /\ group.description = NoValue
    THEN [f \in DOMAIN group \ {"description"} |-> group[f]]
    ELSE group

\* savePinnedStops: the item holds the list
savePinnedStops(stops) ==
    [by |-> "savePinnedStops", stops |-> [i \in 1..Len(stops) |-> Stringified(stops[i])]]

\* stops.findIndex(s => s.id === id): the first position of the id, 0 for -1
FindIndex(stops, id) ==
    IF \E i \in 1..Len(stops) : stops[i].id = id
    THEN CHOOSE i \in 1..Len(stops) :
             /\ stops[i].id = id
             /\ \A j \in 1..(i - 1) : stops[j].id # id
    ELSE 0

\* { ...group, ...updates }: the fields of updates over those of the group
Spread(group, updates) == updates @@ group

\* the item after addPinnedStop that pushes without looking for the id
AddedUnchecked(item, stop, now) ==
    savePinnedStops(Append(loadPinnedStops(item, now), stop))

\* the item after addPinnedStop(stop)
Added(item, stop, now) ==
    LET stops == loadPinnedStops(item, now)
    IN  IF \E i \in 1..Len(stops) : stops[i].id = stop.id
        THEN item
        ELSE savePinnedStops(Append(stops, stop))

\* the item after updatePinnedStop(id, updates)
Updated(item, id, updates, now) ==
    LET stops == loadPinnedStops(item, now)
        index == FindIndex(stops, id)
    IN  IF index = 0
        THEN item
        ELSE savePinnedStops([stops EXCEPT ![index] = Spread(stops[index], updates)])

\* the item after removePinnedStop that drops the last group when the id is
\* not found
RemovedOrLast(item, id, now) ==
    LET stops == loadPinnedStops(item, now)
    IN  IF \E i \in 1..Len(stops) : stops[i].id = id
        THEN savePinnedStops(SelectSeq(stops, LAMBDA s : s.id # id))
        ELSE savePinnedStops(SubSeq(stops, 1, Len(stops) - 1))

\* the item after removePinnedStop(id): the filtered list is always saved
Removed(item, id, now) ==
    savePinnedStops(SelectSeq(loadPinnedStops(item, now), LAMBDA s : s.id # id))

(***************************************************************************)
(* Calls of the storage module.  SpecStore starts from items an earlier    *)
(* version or this version of the app has written and applies the three    *)
(* operations and loadPinnedStops.                                         *)
(***************************************************************************)
MaxStored == 3

IdCity == <<"c", "2", "h">>
IdHome == <<"h", "2", "c">>
IdOld == <<"o", "l", "d">>
IdGone == <<"g", "o", "n", "e">>

\* records of the single-pair version, one of them without a route
LegacyCity == [id |-> IdCity, name |-> "City", stopId |-> Stop359, route |-> G6]
LegacyOld == [id |-> IdOld, name |-> "Old", stopId |-> Stop255, route |-> P18,
              description |-> "to work"]
LegacyNoRoute == [id |-> IdOld, name |-> "Old", stopId |-> Stop255]

\* a group of the current version
StoredHome == [id |-> IdHome, name |-> "Home",
               stops |-> <<[stopId |-> Stop255, route |-> G6],
                           [stopId |-> Stop359, route |-> P18]>>,
               description |-> "home"]

\* the lists found in the item at the start: the ids are pairwise distinct
StoredLists ==
    {<<>>, <<LegacyCity>>, <<StoredHome>>, <<LegacyCity, StoredHome>>,
     <<StoredHome, LegacyOld>>, <<LegacyNoRoute, LegacyCity>>,
     <<LegacyCity, StoredHome, LegacyOld>>}

\* the groups handleAdd builds
NewGroups ==
    {[id |-> IdHome, name |-> "Home 2", stops |-> <<[stopId |-> Stop359, route |-> G6]>>],
     [id |-> IdGone, name |-> "Gone", stops |-> <<[stopId |-> Stop359, route |-> P18]>>,
      description |-> "new"]}

\* the updates handleUpdate passes, and an update of a group's id, which the
\* type Partial<BusStop> of the parameter admits
ManagerUpdates ==
    {[name |-> "Renamed", stops |-> <<[stopId |-> Stop359, route |-> P18]>>,
      description |-> NoValue],
     [name |-> "City", stops |-> <<[stopId |-> Stop359, route |-> G6]>>,
      description |-> "edited"]}

IdUpdates == {[id |-> IdHome]}

StoreIds == {IdCity, IdHome, IdOld, IdGone}

InitStore ==
    /\ InitRoute({FeedBusy}) /\ InitNoPage /\ InitNoTime
    /\ \/ localStorage = NoItem
       \/ \E list \in StoredLists : localStorage = [by |-> "earlier", stops |-> list]
    /\ storeCall = NoCall

\* what a call leaves behind: the operation, its id, the item before it and
\* the list it returned
Call(op, id, result) ==
    [op |-> op, id |-> id, before |-> localStorage, result |-> result]

LoadPinnedStops ==
    /\ storeCall' = Call("load", <<>>, loadPinnedStops(localStorage, DateNow))
    /\ UNCHANGED localStorage

\* each of the three operations ends in savePinnedStops, whose setItem may
\* throw (the quota): the error is caught and the item stays as it was
addPinnedStop(stop) ==
    /\ Len(localStorage.stops) < MaxStored
    /\ \/ localStorage' = Added(localStorage, stop, DateNow)
       \/ localStorage' = localStorage
    /\ storeCall' = Call("add", stop.id, <<>>)

updatePinnedStop(id, updates) ==
    /\ \/ localStorage' = Updated(localStorage, id, updates, DateNow)
       \/ localStorage' = localStorage
    /\ storeCall' = Call("update", id, <<>>)

removePinnedStop(id) ==
    /\ \/ localStorage' = Removed(localStorage, id, DateNow)
       \/ localStorage' = localStorage
    /\ storeCall' = Call("remove", id, <<>>)

NextStore ==
    \/ LoadPinnedStops /\ UNCHANGED <<routeVars, pageVars, timeVars>>
    \/ \E stop \in NewGroups :
           addPinnedStop(stop) /\ UNCHANGED <<routeVars, pageVars, timeVars>>
    \/ \E id \in StoreIds, updates \in ManagerUpdates \cup IdUpdates :
           updatePinnedStop(id, updates) /\ UNCHANGED <<routeVars, pageVars, timeVars>>
    \/ \E id \in StoreIds :
           removePinnedStop(id) /\ UNCHANGED <<routeVars, pageVars, timeVars>>

SpecStore == InitStore /\ [][NextStore]_vars

\* the ids of the groups loadPinnedStops returns for an item
LoadedIds(item) ==
    LET stops == loadPinnedStops(item, DateNow)
    IN  {stops[i].id : i \in 1..Len(stops)}

\* no two groups loadPinnedStops returns for an item have the same id
DistinctIds(item) ==
    LET stops == loadPinnedStops(item, DateNow)
    IN  \A i, j \in 1..Len(stops) : stops[i].id = stops[j].id => i = j

C37_AbsentIdNoChange ==
    (/\ storeCall.op \in {"update", "remove"}
     /\ storeCall.id \notin LoadedIds(storeCall.before))
        => /\ loadPinnedStops(localStorage, DateNow)
                  = loadPinnedStops(storeCall.before, DateNow)
           /\ storeCall.op = "update" => localStorage = storeCall.before

\* removePinnedStop was called with an id no group has on the item an earlier
\* version wrote with two records, and the item holds the two groups
C37_Witness ==
    /\ storeCall.op = "remove"
    /\ storeCall.id = IdGone
    /\ storeCall.before = [by |-> "earlier", stops |-> <<LegacyCity, StoredHome>>]
    /\ localStorage.by = "savePinnedStops"
    /\ Len(localStorage.stops) = 2
    /\ localStorage.stops[1].id = IdCity
    /\ localStorage.stops[1].stops = <<[stopId |-> Stop359, route |-> G6]>>
    /\ localStorage.stops[2] = StoredHome

(***************************************************************************)
(* Migration of the stored records.  SpecMigrate starts from an item of    *)
(* one record, of the single-pair version, of the current version or       *)
(* malformed; loadPinnedStops migrates it and removePinnedStop of an id    *)
(* nobody has writes the migrated list back.                               *)
(***************************************************************************)
\* a record with or without a description
Described(record, descriptions) ==
    {record} \cup {record @@ [description |-> d] : d \in descriptions}

\* records as the single-pair version wrote them
LegacyRecords ==
    UNION {Described([id |-> id, name |-> name, stopId |-> stopId, route |-> route],
                     {"", "to work"}) :
               id \in {IdCity, IdOld}, name \in {"City", "Old"},
               stopId \in {Stop359, Stop255}, route \in {G6, P18}}

\* records with a stops array, which may be empty
MultiPairRecords ==
    UNION {Described([id |-> id, name |-> name, stops |-> stops], {"home"}) :
               id \in {IdHome, IdOld}, name \in {"Home", "Old"},
               stops \in {<<>>,
                          <<[stopId |-> Stop255, route |-> G6]>>,
                          <<[stopId |-> Stop255, route |-> G6],
                            [stopId |-> Stop359, route |-> P18]>>}}

\* records that are neither: no route, no name, no id
MalformedRecords ==
    {[id |-> IdOld, name |-> "Old", stopId |-> Stop255],
     [id |-> IdOld, name |-> "", stopId |-> <<>>, route |-> G6],
     [id |-> <<>>, name |-> "Old"]}

InitMigrate ==
    /\ InitRoute({FeedBusy}) /\ InitNoPage /\ InitNoTime
    /\ \E record \in LegacyRecords \cup MultiPairRecords \cup MalformedRecords :
           localStorage = [by |-> "earlier", stops |-> <<record>>]
    /\ storeCall = NoCall

NextMigrate ==
    \/ LoadPinnedStops /\ UNCHANGED <<routeVars, pageVars, timeVars>>
    \/ removePinnedStop(IdGone) /\ UNCHANGED <<routeVars, pageVars, timeVars>>

SpecMigrate == InitMigrate /\ [][NextMigrate]_vars

\* a record of the single-pair version: {id, name, stopId, route}
IsLegacyRecord(record) ==
    /\ {"id", "name", "stopId", "route"} \subseteq DOMAIN record
    /\ ~HasField(record, "stops")
    /\ record.stopId # <<>>
    /\ record.route # <<>>

\* a record in the multi-pair format
IsMultiPairRecord(record) ==
    /\ {"id", "name", "stops"} \subseteq DOMAIN record
    /\ ~HasField(record, "stopId")
    /\ ~HasField(record, "route")

\* what loadPinnedStops returned for the records of the item, one group for
\* each record, under a reading of 'already in the multi-pair format'
LoadMigrates(Unchanged(_)) ==
    storeCall.op = "load" =>
        /\ Len(storeCall.result) = Len(storeCall.before.stops)
        /\ \A i \in 1..Len(storeCall.result) :
               LET record == storeCall.before.stops[i]
                   group == storeCall.result[i]
               IN  /\ IsLegacyRecord(record) =>
                          /\ group.id = record.id
                          /\ group.name = record.name
                          /\ group.stops = <<[stopId |-> record.stopId,
                                              route |-> record.route]>>
                   /\ Unchanged(record) => group = record
                   /\ storeCall.before.by = "savePinnedStops" => group = record

HasPairs(record) == IsMultiPairRecord(record) /\ Len(record.stops) >= 1

====
